---- MODULE Spec2Model ----
(***************************************************************************)
(* Asynchronous job pipeline of extensao-whatsapp-back:                    *)
(*   JobsService.enqueue  ->  queue (LocalQueue | StreamsQueue)            *)
(*                        ->  Processor.processMessage -> JobsRepository   *)
(* Each action is one step of the Go code between two accesses to shared   *)
(* state (repository, channel, Redis stream).                              *)
(***************************************************************************)
EXTENDS Integers, Sequences, FiniteSets, TLC

\* Number of EnqueueSummary/EnqueueReport calls explored. Jobs share nothing
\* but the queue and the single consumer loop; every property below is stated
\* per job.
MaxJobs == 1

\* queue.NewLocalQueue(512, 3, logger) / StreamsConfig{MaxAttempts: 3}
maxAttempts == 3

\* queue.NewLocalQueue(512, ...): capacity of the buffered channel
bufferSize == 512

\* XReadGroupArgs.Count
readCount == 10

JobIDs == 1..MaxJobs

JobKinds == {"summary", "report"}

JobStatusPending == "pending"
JobStatusProcessing == "processing"
JobStatusDone == "done"
JobStatusFailed == "failed"

\* the map lookup that finds nothing (ErrNotFound / pgx.ErrNoRows)
NoJob == [id |-> 0]

\* domain.QueueMessage: the fields the pipeline's control flow reads
QueueMessage(j, k, a) == [job |-> j, kind |-> k, attempt |-> a]

NoMessage == [job |-> 0, kind |-> "", attempt |-> 0]

VARIABLES
    backend,     \* "local" (LocalQueue) or "streams" (StreamsQueue), fixed by setupQueue
    repoKind,    \* "memory" or "postgres", fixed by setupRepository
    jobs,        \* the repository: job id -> stored Job, or NoJob
    svc,         \* position of the JobsService.enqueue call that creates job j
    ch,          \* LocalQueue.ch / entries of the main stream not yet read by the group
    unacked,     \* jobs with an entry that a failed ackAndDelete left in the main stream
    timers,      \* LocalQueue retry goroutines waiting on their timer
    dlq,         \* LocalQueue.dlq / the DLQ stream (its messages; order is not read)
    cpc,         \* position of the consumer loop and of the handler it runs
    batch,       \* StreamsQueue: items of the current XReadGroup reply still to handle
    item,        \* the entry being handled, as read
    cur,         \* the message being handled (Consume increments its attempt)
    wjob,        \* processMessage's local *domain.Job
    ctxDone,     \* the process context has been cancelled
    deliveries,  \* history: handler invocations per job
    failures,    \* history: handler invocations per job that returned an error
    accepted,    \* history: messages for which Enqueue returned nil or that it wrote
    handled      \* history: messages a handler was invoked with

pipelineVars == <<backend, repoKind, jobs, svc, ch, unacked, timers, dlq, cpc, batch, item,
                  cur, wjob, ctxDone, deliveries, failures, accepted, handled>>

queueVars == <<ch, unacked, timers, dlq, batch, item, cur>>
histVars == <<deliveries, failures, accepted, handled>>

\* The components below are exercised on their own, each under a specification
\* of its own; the pipeline leaves their variables alone.
VARIABLES
    pgRows,      \* repository calls: rows of the Postgres table jobs
    rlast,       \* repository calls: the last call and what it returned
    rcalls       \* repository calls: number of calls made

repoVars == <<pgRows, rlast, rcalls>>

NoCall == [op |-> "none"]

RepoIdle ==
    /\ pgRows = {}
    /\ rlast = NoCall
    /\ rcalls = 0

\* number of concurrent BatchingProducer.Enqueue calls explored
MaxCallers == 3

Callers == 1..MaxCallers

VARIABLES
    epc,          \* batching producer: position of caller c in Enqueue
    ret,          \* batching producer: what Enqueue returned to caller c
    cctx,         \* batching producer: the context of caller c is done
    inbox,        \* batching producer: b.in, the requests (by caller) in the channel
    resultCh,     \* batching producer: request.result of caller c, "none" when empty
    rpc,          \* batching producer: position of the run goroutine
    pending,      \* batching producer: run's pending slice
    timerRunning, \* batching producer: run's timerRunning
    inflight,     \* batching producer: the sorted active requests handed to the base
    final,        \* batching producer: the flush in progress is the final one
    stopped,      \* batching producer: Close has closed b.stop
    parentDone,   \* batching producer: the parent context is done
    baseLog,      \* history: the messages written to the base producer, in order
    baseCalls,    \* history: number of EnqueueBatch calls on the base producer
    sends,        \* history: number of values sent on request.result of caller c
    timerFires,   \* history: number of flushes started by the timer
    arrivals      \* history: number of requests run appended to pending

bpVars == <<epc, ret, cctx, inbox, resultCh, rpc, pending, timerRunning, inflight, final,
            stopped, parentDone, baseLog, baseCalls, sends, timerFires, arrivals>>

\* NewBatchingProducer: empty channels, run started with its timer stopped
BpIdle ==
    /\ epc = [c \in Callers |-> "idle"]
    /\ ret = [c \in Callers |-> "none"]
    /\ cctx = [c \in Callers |-> FALSE]
    /\ inbox = <<>>
    /\ resultCh = [c \in Callers |-> "none"]
    /\ rpc = "select"
    /\ pending = <<>>
    /\ timerRunning = FALSE
    /\ inflight = <<>>
    /\ final = FALSE
    /\ stopped = FALSE
    /\ parentDone = FALSE
    /\ baseLog = <<>>
    /\ baseCalls = 0
    /\ sends = [c \in Callers |-> 0]
    /\ timerFires = 0
    /\ arrivals = 0

\* number of POST /v1/summaries (or /v1/reports) requests explored, all with
\* the same Idempotency-Key
MaxRequests == 3

Requests == 1..MaxRequests

VARIABLES
    apc,          \* API: position of the handler of request r
    apayload,     \* API: the decoded request of r
    aresp,        \* API: the response written for r
    idem,         \* API: the idempotencyStore entry of the key, NoEntry when absent
    apiJobs,      \* API: the jobs EnqueueSummary created, with request and payload
    apiPublished  \* API: the job ids a queue message was published for

apiVars == <<apc, apayload, aresp, idem, apiJobs, apiPublished>>

NoEntry == [job |-> 0]

NoResponse == [code |-> 0]

\* NewAPI: an empty idempotency store, no request in progress
ApiIdle ==
    /\ apc = [r \in Requests |-> "idle"]
    /\ apayload = [r \in Requests |-> "none"]
    /\ aresp = [r \in Requests |-> NoResponse]
    /\ idem = NoEntry
    /\ apiJobs = {}
    /\ apiPublished = {}

\* number of generation requests explored
MaxGenRequests == 3

GenRequests == 1..MaxGenRequests

\* ai.TaskKind; the requests explored differ in their task only, so the
\* task stands for the signature BuildSignature computes
Tasks == {"suggestion", "summary", "report"}

VARIABLES
    gpc,           \* generation: position of request g in GenerateSuggestions / generateStructuredJob
    gtask,         \* generation: the task of request g
    gseen,         \* generation: the entry SemanticCache.Get read under its read lock
    gres,          \* generation: the validated model output of g, before cache.Set
    gout,          \* generation: what the call returned to its caller
    gfail,         \* generation: the stage of g that failed, "none" when none did
    hasFallbackModel, \* generation: profile.FallbackModel is set and differs from PrimaryModel
    entries,       \* SemanticCache.entries, by signature
    maxEntries,    \* SemanticCache.maxEntries
    clock,         \* time.Now()
    genCalls,      \* how many times TextGenerator.Generate was called for each signature
    lastGen        \* the last validated generation stored for each signature, and when

genVars == <<gpc, gtask, gseen, gres, gout, gfail, hasFallbackModel, entries, maxEntries,
             clock, genCalls, lastGen>>

NoCacheEntry == [ExpiresAt |-> -1]

NoOutput == [err |-> "none"]

NoGeneration == [at |-> -1]

\* NewAIGenerationService with an empty SemanticCache, no call in progress
GenStart ==
    /\ gpc = [g \in GenRequests |-> "idle"]
    /\ gtask = [g \in GenRequests |-> "none"]
    /\ gseen = [g \in GenRequests |-> NoCacheEntry]
    /\ gres = [g \in GenRequests |-> NoOutput]
    /\ gout = [g \in GenRequests |-> NoOutput]
    /\ gfail = [g \in GenRequests |-> "none"]
    /\ entries = [sig \in Tasks |-> NoCacheEntry]
    /\ clock = 0
    /\ genCalls = [sig \in Tasks |-> 0]
    /\ lastGen = [sig \in Tasks |-> NoGeneration]

\* NewModelRouter's defaults: the fallback model is the primary model; a
\* cache of one entry
GenIdle == GenStart /\ hasFallbackModel = FALSE /\ maxEntries = 1

VARIABLES
    binput,   \* context builder: the BuildInput of the calls explored
    bcache,   \* context builder: Builder.cache entry of that input's key
    blast,    \* context builder: what the last Build call retrieved and returned
    bfirst    \* context builder: the output of the first Build call

ctxVars == <<binput, bcache, blast, bfirst>>

NoBuild == [called |-> FALSE]

NoPayload == [conversation |-> FALSE, messages |-> <<>>]

\* NewBuilder: an empty cache, no call made
CtxStart == bcache = NoBuild /\ blast = NoBuild /\ bfirst = NoBuild

CtxIdle ==
    /\ CtxStart
    /\ binput = [Payload |-> NoPayload, MaxInputTokens |-> 0, MaxChunks |-> 0]

VARIABLES
    vout,      \* validator: the suggestions ValidateSuggestions has kept so far
    vpenalty,  \* validator: the penalty so far, in hundredths
    vcount,    \* validator: how many candidates the loop has taken
    vres       \* validator: what ValidateSuggestions returned

valVars == <<vout, vpenalty, vcount, vres>>

NoResult == [returned |-> FALSE]

\* no ValidateSuggestions call in progress
ValIdle == vout = <<>> /\ vpenalty = 0 /\ vcount = 0 /\ vres = NoResult

VARIABLES
    opc,      \* provider client: position of Generate ("idle", "call", "wait", "returned")
    attempt,  \* provider client: the loop variable of Generate
    olog,     \* provider client: the outcomes of the provider calls made, in order
    oret,     \* provider client: what Generate returned
    octx,     \* provider client: the caller's context is done
    maxRetries \* provider client: OpenRouterClient.maxRetries

orVars == <<opc, attempt, olog, oret, octx, maxRetries>>

\* config.MaxRetries when none is configured
DefaultMaxRetries == 2

\* NewOpenRouterClient with an API key, no Generate call made
OrIdle ==
    /\ opc = "idle" /\ attempt = 0 /\ olog = <<>> /\ oret = NoResult /\ octx = FALSE
    /\ maxRetries = DefaultMaxRetries

VARIABLES
    mhist     \* PII masking: the payload received and its successive maskings

maskVars == <<mhist>>

\* no payload received
MaskIdle == mhist = <<>>

VARIABLES
    baseFull  \* base producer: LocalQueue.ch holds bufferSize messages

baseVars == <<baseFull>>

\* NewLocalQueue: an empty channel
BaseIdle == baseFull = FALSE

VARIABLES
    profile,  \* generateText: the ModelProfile of the request's task
    tpc,      \* generateText: where each request stands
    tlog,     \* generateText: the models passed to client.Generate, in order, with the outcome
    tret      \* generateText: what it returned

textVars == <<profile, tpc, tlog, tret>>

\* no generateText call under way
TextIdle ==
    /\ profile = [PrimaryModel |-> <<"d">>, FallbackModel |-> <<"d">>]
    /\ tpc = [g \in GenRequests |-> "idle"]
    /\ tlog = [g \in GenRequests |-> <<>>]
    /\ tret = [g \in GenRequests |-> <<>>]

\* the components added last, which the earlier ones leave alone
lateVars == <<valVars, orVars, maskVars, baseVars, textVars>>

componentVars == <<repoVars, bpVars, apiVars, genVars, ctxVars, lateVars>>

ComponentsIdle ==
    RepoIdle /\ BpIdle /\ ApiIdle /\ GenIdle /\ CtxIdle /\ ValIdle /\ OrIdle /\ MaskIdle /\ BaseIdle /\ TextIdle

vars == <<pipelineVars, componentVars>>

\* what a repository call leaves alone
repoFrame == <<backend, repoKind, svc, queueVars, cpc, wjob, ctxDone, histVars, bpVars,
               apiVars, genVars, ctxVars, lateVars>>

\* what the batching producer leaves alone
bpFrame == <<pipelineVars, repoVars, apiVars, genVars, ctxVars, lateVars>>

\* what the HTTP handlers leave alone
apiFrame == <<pipelineVars, repoVars, bpVars, genVars, ctxVars, lateVars>>

\* what the generation service leaves alone
genFrame == <<pipelineVars, repoVars, bpVars, apiVars, ctxVars, lateVars>>

\* what the context builder leaves alone, the clock apart
ctxFrame == <<pipelineVars, repoVars, bpVars, apiVars, gpc, gtask, gseen, gres, gout, gfail,
              hasFallbackModel, entries, maxEntries, genCalls, lastGen, lateVars>>

\* what the output validator leaves alone
valFrame == <<pipelineVars, repoVars, bpVars, apiVars, genVars, ctxVars, orVars, maskVars, baseVars,
              textVars>>

\* what the provider client leaves alone
orFrame == <<pipelineVars, repoVars, bpVars, apiVars, genVars, ctxVars, valVars, maskVars, baseVars,
             textVars>>

\* what PII masking leaves alone
maskFrame == <<pipelineVars, repoVars, bpVars, apiVars, genVars, ctxVars, valVars, orVars,
               baseVars, textVars>>

\* what the base producer's channel leaves alone
baseFrame == <<pipelineVars, repoVars, bpVars, apiVars, genVars, ctxVars, valVars, orVars,
               maskVars, textVars>>

\* what generateText leaves alone
textFrame == <<pipelineVars, repoVars, bpVars, apiVars, genVars, ctxVars, valVars, orVars,
               maskVars, baseVars>>


----------------------------------------------------------------------------
(* Repository *)

\* MemoryJobsRepository.CreateJob stores a clone under job.ID;
\* PostgresJobsRepository.CreateJob inserts the row.
CreateJob(repo, job) == [repo EXCEPT ![job.id] = job]

\* MemoryJobsRepository.UpdateJob: ErrNotFound when absent, else the stored job
\* is replaced by a clone of the argument, every field included.
UpdateJob(repo, job) ==
    IF repo[job.id] = NoJob
    THEN repo
    ELSE [repo EXCEPT ![job.id] = job]

\* variant: a lookup that finds nothing returns an empty pending job
GetJobOrEmpty(repo, jobID) ==
    IF repo[jobID] = NoJob
    THEN [id |-> jobID, kind |-> "summary", status |-> JobStatusPending, attempts |-> 0,
          error_message |-> "", result |-> ""]
    ELSE repo[jobID]

\* GetJob returns a clone of the stored job
GetJob(repo, jobID) == repo[jobID]

\* Outcomes of one repository call made with the request context: the
\* in-memory repository never fails, a Postgres call can return an error.
RepoOutcomes == IF repoKind = "memory" THEN {TRUE} ELSE {TRUE, FALSE}

\* Outcomes of one repository call made by the worker with the process
\* context: a pgx call on a cancelled context returns its error.
WorkerRepoOutcomes ==
    IF repoKind = "memory" THEN {TRUE}
    ELSE IF ctxDone THEN {FALSE} ELSE {TRUE, FALSE}

\* Outcomes of one Redis command of the consumer (process context).
RedisOutcomes == IF ctxDone THEN {FALSE} ELSE {TRUE, FALSE}

----------------------------------------------------------------------------
(* JobsService.enqueue *)

\* the pending Job built by enqueue
NewJob(j, kind) ==
    [id |-> j, kind |-> kind, status |-> JobStatusPending, attempts |-> 0,
     error_message |-> "", result |-> ""]

\* EnqueueSummary and EnqueueReport differ in the kind alone; the calls
\* explored alternate between the two.
KindOfCall(j) == IF j % 2 = 1 THEN "summary" ELSE "report"

\* enqueue up to CreateJob: a fresh uuid, so ids are handed out in order
SvcCreate(j, kind) ==
    /\ svc[j] = "none"
    /\ kind = KindOfCall(j)
    /\ \A i \in JobIDs : i < j => svc[i] # "none"
    /\ \E ok \in RepoOutcomes :
          IF ok
          THEN /\ jobs' = CreateJob(jobs, NewJob(j, kind))
               /\ svc' = [svc EXCEPT ![j] = "created"]
          ELSE /\ jobs' = jobs
               /\ svc' = [svc EXCEPT ![j] = "returned_err"]
    /\ UNCHANGED <<componentVars, backend, repoKind, queueVars, cpc, wjob, ctxDone, histVars>>

\* What s.producer.Enqueue can do with the message of job j:
\*   "ok"               written to the queue, nil returned
\*   "failed"           not written, error returned
\*   "failed_published" written to the queue, error returned (BatchingProducer
\*                      returns ctx.Err() or the batch's error for a message the
\*                      dispatcher has already handed to the base producer)
PublishOutcomes == {"ok", "failed", "failed_published"}

firstAttempt == 0

SvcPublish(j) ==
    /\ svc[j] = "created"
    /\ \E outcome \in PublishOutcomes :
          LET message == QueueMessage(j, jobs[j].kind, firstAttempt) IN
          /\ IF outcome = "failed"
             THEN UNCHANGED <<ch, accepted>>
             ELSE /\ Len(ch) < bufferSize
                  /\ ch' = Append(ch, message)
                  /\ accepted' = accepted \cup {message}
          /\ svc' = [svc EXCEPT ![j] = IF outcome = "ok" THEN "returned_ok" ELSE "failing"]
    /\ UNCHANGED <<componentVars, backend, repoKind, jobs, unacked, timers, dlq, cpc, batch, item, cur,
                   wjob, ctxDone, deliveries, failures, handled>>

\* the job enqueue writes after a publish error: its own copy, marked failed
\* variant: the publish-failure update that forgets job.Status = failed
PublishFailedJobKeepsStatus(j, kind) ==
    [NewJob(j, kind) EXCEPT !.error_message = "enqueue_error"]

PublishFailedJob(j, kind) ==
    [NewJob(j, kind) EXCEPT !.status = JobStatusFailed, !.error_message = "enqueue_error"]

\* _ = s.repo.UpdateJob(ctx, job); return nil, err
SvcFailWrite(j) ==
    /\ svc[j] = "failing"
    /\ \E ok \in RepoOutcomes :
          jobs' = IF ok THEN UpdateJob(jobs, PublishFailedJob(j, jobs[j].kind)) ELSE jobs
    /\ svc' = [svc EXCEPT ![j] = "returned_err"]
    /\ UNCHANGED <<componentVars, backend, repoKind, queueVars, cpc, wjob, ctxDone, histVars>>

----------------------------------------------------------------------------
(* Processor.processMessage, the handler *)

\* the handler is invoked with message m
StartHandler(m) ==
    /\ cur' = m
    /\ item' = m
    /\ cpc' = "h_get"
    /\ deliveries' = [deliveries EXCEPT ![m.job] = @ + 1]
    /\ handled' = handled \cup {m}

\* the handler has returned and Consume is done with the message: message,
\* item and job go out of scope
EndHandler ==
    /\ cur' = NoMessage
    /\ item' = NoMessage
    /\ wjob' = NoJob

\* processMessage returns err: its job goes out of scope
HandlerReturns(err) ==
    /\ wjob' = NoJob
    /\ cpc' = IF err THEN "failed" ELSE "succeeded"
    /\ failures' = IF err THEN [failures EXCEPT ![cur.job] = @ + 1] ELSE failures

\* job, err := p.repo.GetJob(ctx, message.JobID); an error returns "load job"
HGet ==
    /\ cpc = "h_get"
    /\ \E ok \in WorkerRepoOutcomes :
          IF ok /\ GetJob(jobs, cur.job) # NoJob
          THEN /\ wjob' = GetJob(jobs, cur.job)
               /\ cpc' = "h_mark"
               /\ UNCHANGED failures
          ELSE HandlerReturns(TRUE)
    /\ UNCHANGED <<componentVars, backend, repoKind, jobs, svc, queueVars, ctxDone, deliveries,
                   accepted, handled>>

\* job.Status = processing; job.Attempts = message.Attempt + 1
MarkProcessing(job, message) ==
    [job EXCEPT !.status = JobStatusProcessing, !.attempts = message.attempt + 1]

\* p.repo.UpdateJob(ctx, job); an error returns "mark processing"
HMark ==
    /\ cpc = "h_mark"
    /\ \E ok \in WorkerRepoOutcomes :
          IF ok /\ jobs[wjob.id] # NoJob
          THEN /\ jobs' = UpdateJob(jobs, MarkProcessing(wjob, cur))
               /\ wjob' = MarkProcessing(wjob, cur)
               /\ cpc' = "h_build"
               /\ UNCHANGED failures
          ELSE /\ jobs' = jobs
               /\ HandlerReturns(TRUE)
    /\ UNCHANGED <<componentVars, backend, repoKind, svc, queueVars, ctxDone, deliveries, accepted, handled>>

\* buildResult: the AI output or the static result for summary and report
\* (GenerateSummary/GenerateReport never return an error), an error for any
\* other kind.
buildResult(kind) ==
    IF kind \in {"summary", "report"}
    THEN [err |-> "", result |-> "result_json"]
    ELSE [err |-> "unsupported job kind", result |-> ""]

\* policy.MaskPIIJSON on a non-empty document yields a non-empty document
MaskPIIJSON(result) == IF result = "" THEN "" ELSE "masked_" \o result

\* job.Status = failed; job.ErrorMessage = processErr.Error()
MarkFailed(job, err) ==
    [job EXCEPT !.status = JobStatusFailed, !.error_message = err]

\* variant: the done update that forgets job.Result = result
MarkDoneWithoutResult(job, result) ==
    [job EXCEPT !.status = JobStatusDone, !.error_message = ""]

\* job.Status = done; job.ErrorMessage = ""; job.Result = result
MarkDone(job, result) ==
    [job EXCEPT !.status = JobStatusDone, !.error_message = "", !.result = result]

\* buildResult, then the final UpdateJob: failed (its error dropped, processErr
\* returned) or done (an error returns "mark done")
HBuild ==
    /\ cpc = "h_build"
    /\ LET built == buildResult(wjob.kind) IN
       IF built.err # ""
       THEN /\ \E ok \in WorkerRepoOutcomes :
                  jobs' = IF ok THEN UpdateJob(jobs, MarkFailed(wjob, built.err)) ELSE jobs
            /\ HandlerReturns(TRUE)
       ELSE \E ok \in WorkerRepoOutcomes :
                  IF ok /\ jobs[wjob.id] # NoJob
                  THEN /\ jobs' = UpdateJob(jobs, MarkDone(wjob, MaskPIIJSON(built.result)))
                       /\ HandlerReturns(FALSE)
                  ELSE /\ jobs' = jobs
                       /\ HandlerReturns(TRUE)
    /\ UNCHANGED <<componentVars, backend, repoKind, svc, queueVars, ctxDone, deliveries, accepted, handled>>

----------------------------------------------------------------------------
(* LocalQueue.Consume *)

\* variant: Consume checks the context after the receive and returns without
\* calling the handler
LocalReceiveThenCtxCheck ==
    /\ backend = "local"
    /\ cpc = "idle"
    /\ ch # <<>>
    /\ ch' = Tail(ch)
    /\ IF ctxDone
       THEN /\ cpc' = "stopped"
            /\ UNCHANGED <<item, cur, deliveries, handled>>
       ELSE StartHandler(Head(ch))
    /\ UNCHANGED <<componentVars, backend, repoKind, jobs, svc, unacked, timers, dlq, batch, wjob, ctxDone,
                   failures, accepted>>

\* case message := <-q.ch: err := handler(ctx, message)
LocalReceive ==
    /\ backend = "local"
    /\ cpc = "idle"
    /\ ch # <<>>
    /\ ch' = Tail(ch)
    /\ StartHandler(Head(ch))
    /\ UNCHANGED <<componentVars, backend, repoKind, jobs, svc, unacked, timers, dlq, batch, wjob, ctxDone,
                   failures, accepted>>

\* if err == nil { continue }
LocalAfterSuccess ==
    /\ backend = "local"
    /\ cpc = "succeeded"
    /\ cpc' = "idle"
    /\ EndHandler
    /\ UNCHANGED <<componentVars, backend, repoKind, jobs, svc, ch, unacked, timers, dlq, batch, ctxDone,
                   histVars>>

\* variant: the retry that forgets message.Attempt++
NextAttemptUnchanged(message) == message

\* message.Attempt++
NextAttempt(message) == [message EXCEPT !.attempt = @ + 1]

\* message.Attempt++; DLQ when Attempt >= maxAttempts, else a retry goroutine
LocalAfterFailure ==
    /\ backend = "local"
    /\ cpc = "failed"
    /\ LET retryMessage == NextAttempt(cur) IN
       IF retryMessage.attempt >= maxAttempts
       THEN /\ dlq' = dlq \cup {retryMessage}
            /\ timers' = timers
       ELSE /\ timers' = timers \cup {retryMessage}
            /\ dlq' = dlq
    /\ cpc' = "idle"
    /\ EndHandler
    /\ UNCHANGED <<componentVars, backend, repoKind, jobs, svc, ch, unacked, batch, ctxDone, histVars>>

\* the retry goroutine: case <-timer.C: q.ch <- retryMessage
RetryFire(m) ==
    /\ m \in timers
    /\ ~ctxDone
    /\ Len(ch) < bufferSize
    /\ ch' = Append(ch, m)
    /\ timers' = timers \ {m}
    /\ UNCHANGED <<componentVars, backend, repoKind, jobs, svc, unacked, dlq, cpc, batch, item, cur, wjob,
                   ctxDone, histVars>>

\* the retry goroutine: case <-ctx.Done(): return
RetryDrop(m) ==
    /\ m \in timers
    /\ ctxDone
    /\ timers' = timers \ {m}
    /\ UNCHANGED <<componentVars, backend, repoKind, jobs, svc, ch, unacked, dlq, cpc, batch, item, cur, wjob,
                   ctxDone, histVars>>

\* case <-ctx.Done(): return ctx.Err(); Processor.Start returns as well
ConsumerStop ==
    /\ cpc = "idle"
    /\ ctxDone
    /\ cpc' = "stopped"
    /\ UNCHANGED <<componentVars, backend, repoKind, jobs, svc, queueVars, wjob, ctxDone, histVars>>

\* SIGINT/SIGTERM cancels the context of main
Shutdown ==
    /\ ~ctxDone
    /\ ctxDone' = TRUE
    /\ UNCHANGED <<componentVars, backend, repoKind, jobs, svc, queueVars, cpc, wjob, histVars>>

----------------------------------------------------------------------------
(* StreamsQueue.Consume *)

Min(a, b) == IF a < b THEN a ELSE b

Range(seq) == {seq[i] : i \in 1..Len(seq)}

\* XReadGroup(Streams: {stream, ">"}, Count: 10): up to 10 entries never
\* delivered to the group; they stay in the stream as pending entries.
\* (An XReadGroup error makes Consume return it; Processor.Start then calls
\* Consume again after 2 s, which changes nothing here.)
StreamsRead ==
    /\ backend = "streams"
    /\ cpc = "idle"
    /\ ~ctxDone
    /\ ch # <<>>
    /\ LET n == Min(readCount, Len(ch)) IN
       /\ batch' = SubSeq(ch, 1, n)
       /\ ch' = SubSeq(ch, n + 1, Len(ch))
    /\ cpc' = "next"
    /\ UNCHANGED <<componentVars, backend, repoKind, jobs, svc, unacked, timers, dlq, item, cur, wjob,
                   ctxDone, histVars>>

\* for _, item := range stream.Messages: handleErr := handler(ctx, message).
\* parseStreamMessage succeeds on every entry Enqueue wrote (all seven fields are
\* set, attempt is a decimal int, requested_at is RFC3339Nano), and the loop
\* does not look at ctx between two items.
StreamsNextItem ==
    /\ backend = "streams"
    /\ cpc = "next"
    /\ batch # <<>>
    /\ batch' = Tail(batch)
    /\ StartHandler(Head(batch))
    /\ UNCHANGED <<componentVars, backend, repoKind, jobs, svc, ch, unacked, timers, dlq, wjob, ctxDone,
                   failures, accepted>>

\* the reply is exhausted: back to the head of the for loop
StreamsBatchDone ==
    /\ backend = "streams"
    /\ cpc = "next"
    /\ batch = <<>>
    /\ cpc' = "idle"
    /\ UNCHANGED <<componentVars, backend, repoKind, jobs, svc, queueVars, wjob, ctxDone, histVars>>

\* ackAndDelete: XAck then XDel. When either fails the entry stays in the main
\* stream; XReadGroup reads ">" only, so Consume never sees that entry again.
ackAndDelete(left, entry, ok) == IF ok THEN left ELSE left \cup {entry.job}

\* sendToDLQ: XAdd to the DLQ stream; the caller drops the error
sendToDLQ(queue, message, ok) == IF ok THEN queue \cup {message} ELSE queue

\* handleErr == nil: _ = q.ackAndDelete(ctx, item.ID)
StreamsAfterSuccess ==
    /\ backend = "streams"
    /\ cpc = "succeeded"
    /\ \E ok \in RedisOutcomes : unacked' = ackAndDelete(unacked, item, ok)
    /\ cpc' = "next"
    /\ EndHandler
    /\ UNCHANGED <<componentVars, backend, repoKind, jobs, svc, ch, timers, dlq, batch, ctxDone, histVars>>

\* message.Attempt++; Attempt >= maxAttempts: _ = q.sendToDLQ(...)
StreamsDLQ ==
    /\ backend = "streams"
    /\ cpc = "failed"
    /\ NextAttempt(cur).attempt >= maxAttempts
    /\ cur' = NextAttempt(cur)
    /\ \E ok \in RedisOutcomes : dlq' = sendToDLQ(dlq, cur', ok)
    /\ cpc' = "s_ack"
    /\ UNCHANGED <<componentVars, backend, repoKind, jobs, svc, ch, unacked, timers, batch, item, wjob, ctxDone,
                   histVars>>

\* message.Attempt++; below maxAttempts: requeueErr := q.Enqueue(ctx, message)
StreamsRequeue ==
    /\ backend = "streams"
    /\ cpc = "failed"
    /\ NextAttempt(cur).attempt < maxAttempts
    /\ cur' = NextAttempt(cur)
    /\ \E ok \in RedisOutcomes :
          IF ok
          THEN /\ ch' = Append(ch, cur')
               /\ accepted' = accepted \cup {cur'}
               /\ cpc' = "s_ack"
          ELSE /\ UNCHANGED <<ch, accepted>>
               /\ cpc' = "s_requeue_failed"
    /\ UNCHANGED <<componentVars, backend, repoKind, jobs, svc, unacked, timers, dlq, batch, item, wjob, ctxDone,
                   deliveries, failures, handled>>

\* requeueErr != nil: _ = q.sendToDLQ(ctx, message, item, "requeue failed: ...")
StreamsRequeueDLQ ==
    /\ backend = "streams"
    /\ cpc = "s_requeue_failed"
    /\ \E ok \in RedisOutcomes : dlq' = sendToDLQ(dlq, cur, ok)
    /\ cpc' = "s_ack"
    /\ UNCHANGED <<componentVars, backend, repoKind, jobs, svc, ch, unacked, timers, batch, item, cur, wjob,
                   ctxDone, histVars>>

\* _ = q.ackAndDelete(ctx, item.ID) that ends a failed item
StreamsAck ==
    /\ backend = "streams"
    /\ cpc = "s_ack"
    /\ \E ok \in RedisOutcomes : unacked' = ackAndDelete(unacked, item, ok)
    /\ cpc' = "next"
    /\ EndHandler
    /\ UNCHANGED <<componentVars, backend, repoKind, jobs, svc, ch, timers, dlq, batch, ctxDone, histVars>>

----------------------------------------------------------------------------
PipelineInit ==
    /\ backend \in {"local", "streams"}
    /\ repoKind \in {"memory", "postgres"}
    /\ jobs = [j \in JobIDs |-> NoJob]
    /\ svc = [j \in JobIDs |-> "none"]
    /\ ch = <<>>
    /\ unacked = {}
    /\ timers = {}
    /\ dlq = {}
    /\ cpc = "idle"
    /\ batch = <<>>
    /\ item = NoMessage
    /\ cur = NoMessage
    /\ wjob = NoJob
    /\ ctxDone = FALSE
    /\ deliveries = [j \in JobIDs |-> 0]
    /\ failures = [j \in JobIDs |-> 0]
    /\ accepted = {}
    /\ handled = {}

Init == PipelineInit /\ ComponentsIdle

Next ==
    \/ \E j \in JobIDs, kind \in JobKinds : SvcCreate(j, kind)
    \/ \E j \in JobIDs : SvcPublish(j)
    \/ \E j \in JobIDs : SvcFailWrite(j)
    \/ LocalReceive
    \/ HGet
    \/ HMark
    \/ HBuild
    \/ LocalAfterSuccess
    \/ LocalAfterFailure
    \/ \E m \in timers : RetryFire(m)
    \/ \E m \in timers : RetryDrop(m)
    \/ StreamsRead
    \/ StreamsNextItem
    \/ StreamsBatchDone
    \/ StreamsAfterSuccess
    \/ StreamsDLQ
    \/ StreamsRequeue
    \/ StreamsRequeueDLQ
    \/ StreamsAck
    \/ ConsumerStop
    \/ Shutdown

Spec == Init /\ [][Next]_vars

\* One step of the consumer goroutine (Processor.Start -> Consume -> handler).
ConsumerNext ==
    \/ LocalReceive
    \/ HGet
    \/ HMark
    \/ HBuild
    \/ LocalAfterSuccess
    \/ LocalAfterFailure
    \/ StreamsRead
    \/ StreamsNextItem
    \/ StreamsBatchDone
    \/ StreamsAfterSuccess
    \/ StreamsDLQ
    \/ StreamsRequeue
    \/ StreamsRequeueDLQ
    \/ StreamsAck

\* The Go scheduler runs a runnable goroutine: the consumer loop, and the
\* retry goroutines whose timer has fired.
FairSpec ==
    /\ Spec
    /\ WF_vars(ConsumerNext)
    /\ WF_vars(\E m \in timers : RetryFire(m))

----------------------------------------------------------------------------
(* Properties *)

Stored(j) == jobs[j] # NoJob

TerminalStatuses == {JobStatusDone, JobStatusFailed}

\* every message the bounds allow
AllMessages == {QueueMessage(j, KindOfCall(j), a) : j \in JobIDs, a \in 0..maxAttempts}

\* the entries of the main queue: the channel / the stream entries not yet
\* read, those read and not yet acked, those a failed ackAndDelete left behind
InMainQueue(m) ==
    \/ m \in Range(ch)
    \/ m \in Range(batch)
    \/ item = m
    \/ (backend = "streams" /\ m.job \in unacked)

JobInMainQueue(j) ==
    \/ \E m \in Range(ch) \cup Range(batch) : m.job = j
    \/ j \in unacked

\* nothing is queued, running or scheduled, and the process is up
Quiescent ==
    /\ ~ctxDone
    /\ cpc = "idle"
    /\ ch = <<>>
    /\ batch = <<>>
    /\ timers = {}

\* C1: every change of a stored job's status is pending->processing,
\* processing->done or processing->failed, or a terminal status going back to
\* processing at a delivery of its message; never pending->done or
\* pending->failed.
C1_StatusTransitions ==
    [][\A j \in JobIDs :
          (Stored(j) /\ jobs'[j] # NoJob /\ jobs'[j].status # jobs[j].status) =>
             \/ jobs[j].status = JobStatusPending /\ jobs'[j].status = JobStatusProcessing
             \/ jobs[j].status = JobStatusProcessing /\ jobs'[j].status \in TerminalStatuses
             \/ /\ jobs[j].status \in TerminalStatuses
                /\ jobs'[j].status = JobStatusProcessing
                /\ cpc = "h_mark" /\ cur.job = j]_vars

\* C2: the stored attempts of a job never decrease from one write to the next.
C2_AttemptsMonotone ==
    [][\A j \in JobIDs :
          (Stored(j) /\ jobs'[j] # NoJob) => jobs'[j].attempts >= jobs[j].attempts]_vars

\* C3: a stored job has a non-empty error_message only when its status is failed.
C3_ErrorOnlyWhenFailed ==
    \A j \in JobIDs :
       Stored(j) => (jobs[j].error_message # "" => jobs[j].status = JobStatusFailed)

\* C4: a stored job has a non-empty result exactly when its status is done.
C4_ResultIffDone ==
    \A j \in JobIDs :
       Stored(j) => (jobs[j].result # "" <=> jobs[j].status = JobStatusDone)

\* C4 witness: a job that went through a failed delivery is stored done, with
\* its result.
C4_Witness ==
    \E j \in JobIDs :
       /\ Stored(j)
       /\ jobs[j].status = JobStatusDone
       /\ jobs[j].result # ""
       /\ jobs[j].attempts >= 2

\* C5: a job stored as processing, done or failed is never stored as pending
\* again.
C5_NeverBackToPending ==
    [][\A j \in JobIDs :
          (Stored(j) /\ jobs[j].status # JobStatusPending) =>
             (jobs'[j] # NoJob /\ jobs'[j].status # JobStatusPending)]_vars

\* C5 witness: the jobs service is about to write its publish-failure update
\* over a job the worker has already moved out of pending.
C5_Witness ==
    \E j \in JobIDs :
       /\ Stored(j)
       /\ jobs[j].status \in {JobStatusProcessing, JobStatusDone}
       /\ svc[j] = "failing"

\* C6: once the pipeline has nothing left to do, every job whose enqueue call
\* returned successfully is done with a result or failed with an error_message.
C6_TerminalWhenQuiescent ==
    \A j \in JobIDs :
       (Quiescent /\ svc[j] = "returned_ok") =>
          \/ jobs[j].status = JobStatusDone /\ jobs[j].result # ""
          \/ jobs[j].status = JobStatusFailed /\ jobs[j].error_message # ""

C8_DLQAfterMaxFailures ==
    \A j \in JobIDs :
       (failures[j] >= maxAttempts /\ cur.job # j) =>
          /\ \E m \in dlq : m.job = j
          /\ ~JobInMainQueue(j)
          /\ deliveries[j] <= maxAttempts

\* C9: a job whose message reached the DLQ after maxAttempts handler failures
\* is stored failed with a non-empty error_message.
C9_DLQImpliesFailed ==
    \A m \in dlq :
       m.attempt >= maxAttempts =>
          /\ Stored(m.job)
          /\ jobs[m.job].status = JobStatusFailed
          /\ jobs[m.job].error_message # ""

\* C10: while the handler runs, message.attempt is the number of earlier
\* handler invocations for the job, and the attempts it has persisted is the
\* ordinal of this delivery.
C10_AttemptCountsDeliveries ==
    /\ cpc \in {"h_get", "h_mark", "h_build"} => cur.attempt = deliveries[cur.job] - 1
    /\ cpc = "h_build" => wjob.attempts = deliveries[cur.job]

\* C10 witness: the third delivery of a job has persisted attempts = 3.
C10_Witness ==
    /\ cpc = "h_build"
    /\ cur.attempt = 2
    /\ deliveries[cur.job] = 3
    /\ jobs[cur.job].attempts = 3

\* C15: when the producer's Enqueue fails, the enqueue call returns with the job
\* stored failed and a non-empty error_message; when it succeeds, the call
\* returns with the job stored pending with attempts 0 and exactly one message
\* of the job, with attempt 0, published.
C15_EnqueueOutcome ==
    [][\A j \in JobIDs :
          /\ (svc[j] = "failing" /\ svc'[j] = "returned_err") =>
                /\ jobs'[j].status = JobStatusFailed
                /\ jobs'[j].error_message # ""
          /\ (svc[j] = "created" /\ svc'[j] = "returned_ok") =>
                /\ jobs'[j].status = JobStatusPending
                /\ jobs'[j].attempts = 0
                /\ Cardinality({i \in 1..Len(ch') : ch'[i].job = j}) = 1
                /\ \A i \in 1..Len(ch') : ch'[i].job = j => ch'[i].attempt = 0]_vars

----------------------------------------------------------------------------
(* JobsRepository, called directly *)

\* number of repository calls explored
MaxRepoCalls == 4

\* distinct created_at instants of the jobs passed to CreateJob
MaxCreatedAt == 2

\* the jobs passed to CreateJob / UpdateJob
RepoJobs ==
    {[NewJob(j, kind) EXCEPT !.status = st] :
        j \in JobIDs, kind \in JobKinds, st \in {JobStatusPending, JobStatusProcessing}}

\* a row of the table jobs: PRIMARY KEY (tenant_id, created_at, id), one tenant
PgRow(job, createdAt) == [job |-> job, created_at |-> createdAt]

\* PostgresJobsRepository.CreateJob: the INSERT fails on a primary-key conflict
\* only, and the key holds created_at besides the id
PgCreateJob(rows, job, createdAt) ==
    IF \E r \in rows : r.job.id = job.id /\ r.created_at = createdAt
    THEN [err |-> TRUE, rows |-> rows]
    ELSE [err |-> FALSE, rows |-> rows \cup {PgRow(job, createdAt)}]

\* PostgresJobsRepository.UpdateJob: UPDATE ... WHERE id = $1, ErrNotFound when
\* no row was affected
PgUpdateJob(rows, job) ==
    [err |-> ~(\E r \in rows : r.job.id = job.id),
     rows |-> {IF r.job.id = job.id
               THEN [r EXCEPT !.job = [@ EXCEPT !.status = job.status,
                                                !.result = job.result,
                                                !.error_message = job.error_message,
                                                !.attempts = job.attempts]]
               ELSE r : r \in rows}]

\* the ids the repository holds a job for
StoredIDs ==
    IF repoKind = "memory"
    THEN {j \in JobIDs : jobs[j] # NoJob}
    ELSE {r.job.id : r \in pgRows}

\* repo.CreateJob(ctx, job)
RepoCreateJob(job, createdAt) ==
    /\ rcalls < MaxRepoCalls
    /\ rcalls' = rcalls + 1
    /\ \E ok \in RepoOutcomes :
          IF repoKind = "memory"
          THEN /\ jobs' = CreateJob(jobs, job)
               /\ pgRows' = pgRows
               /\ rlast' = [op |-> "create", id |-> job.id, err |-> FALSE]
          ELSE LET r == PgCreateJob(pgRows, job, createdAt) IN
               /\ pgRows' = IF ok THEN r.rows ELSE pgRows
               /\ jobs' = jobs
               /\ rlast' = [op |-> "create", id |-> job.id, err |-> (~ok \/ r.err)]
    /\ UNCHANGED repoFrame

\* repo.UpdateJob(ctx, job)
RepoUpdateJob(job) ==
    /\ rcalls < MaxRepoCalls
    /\ rcalls' = rcalls + 1
    /\ \E ok \in RepoOutcomes :
          IF repoKind = "memory"
          THEN /\ jobs' = UpdateJob(jobs, job)
               /\ pgRows' = pgRows
               /\ rlast' = [op |-> "update", id |-> job.id, err |-> (jobs[job.id] = NoJob)]
          ELSE LET r == PgUpdateJob(pgRows, job) IN
               /\ pgRows' = IF ok THEN r.rows ELSE pgRows
               /\ jobs' = jobs
               /\ rlast' = [op |-> "update", id |-> job.id, err |-> (~ok \/ r.err)]
    /\ UNCHANGED repoFrame

\* repo.GetJob(ctx, jobID): ErrNotFound when no job has the id
RepoGetJob(jobID) ==
    /\ rcalls < MaxRepoCalls
    /\ rcalls' = rcalls + 1
    /\ \E ok \in RepoOutcomes :
          rlast' = [op |-> "get", id |-> jobID, err |-> (~ok \/ jobID \notin StoredIDs)]
    /\ UNCHANGED <<jobs, pgRows, repoFrame>>

RepoInit == Init /\ backend = "local"

RepoNext ==
    \/ \E job \in RepoJobs, createdAt \in 1..MaxCreatedAt : RepoCreateJob(job, createdAt)
    \/ \E job \in RepoJobs : RepoUpdateJob(job)
    \/ \E jobID \in JobIDs : RepoGetJob(jobID)

RepoSpec == RepoInit /\ [][RepoNext]_vars

\* C20: a CreateJob call with an id the repository already holds a job for
\* returns an error and leaves the stored jobs unchanged.
C20_CreateRejectsDuplicate ==
    [][(rcalls' = rcalls + 1 /\ rlast'.op = "create" /\ rlast'.id \in StoredIDs) =>
          (rlast'.err /\ jobs' = jobs /\ pgRows' = pgRows)]_vars

\* C21: UpdateJob leaves the fields fixed at creation (kind, standing for
\* created_at, tenant_id, conversation_id and payload too) as they were, and
\* for an absent id returns not_found and stores nothing.
C21_UpdateKeepsCreationFields ==
    [][(rcalls' = rcalls + 1 /\ rlast'.op = "update") =>
          IF rlast'.id \in StoredIDs
          THEN /\ jobs'[rlast'.id].kind = jobs[rlast'.id].kind
               /\ {<<r.job.id, r.job.kind, r.created_at>> : r \in pgRows'}
                     = {<<r.job.id, r.job.kind, r.created_at>> : r \in pgRows}
          ELSE rlast'.err /\ jobs' = jobs /\ pgRows' = pgRows]_vars

----------------------------------------------------------------------------
(* BatchingProducer *)

\* BatchingConfig.MaxBatchSize (QUEUE_BATCH_SIZE, 32 by default), scaled down
MaxBatchSize == 2

\* BatchingConfig.QueueCapacity (QUEUE_BATCH_QUEUE_CAPACITY, 2048 by default),
\* scaled down
QueueCapacity == 1

\* coalesceKey of the message of caller c, as its rank in string order: callers
\* alternate between two conversations
coalesceKey(c) == 1 + (c % 2)

\* message.RequestedAt of caller c: taken by JobsService.enqueue before
\* CreateJob, so callers reach the inbox in any order
RequestedAt(c) == c

\* the less function given to sort.SliceStable
Less(c1, c2) ==
    IF coalesceKey(c1) = coalesceKey(c2)
    THEN RequestedAt(c1) < RequestedAt(c2)
    ELSE coalesceKey(c1) < coalesceKey(c2)

RECURSIVE InsertSorted(_, _)
InsertSorted(c, sorted) ==
    IF sorted = <<>> THEN <<c>>
    ELSE IF ~Less(Head(sorted), c) THEN <<c>> \o sorted
    ELSE <<Head(sorted)>> \o InsertSorted(c, Tail(sorted))

\* sort.SliceStable(active, less)
RECURSIVE SortStable(_)
SortStable(seq) ==
    IF seq = <<>> THEN <<>> ELSE InsertSorted(Head(seq), SortStable(Tail(seq)))

\* the first loop of flushBatch: requests whose context is done get ctx.Err()
ActiveOf(seq) == SelectSeq(seq, LAMBDA c : ~cctx[c])

\* flush(final) up to the call of the base producer: pending is emptied, the
\* cancelled requests are answered, the active ones are sorted and handed to
\* EnqueueBatch (the semaphore is free: run flushes one batch at a time)
FlushPending(requests, isFinal) ==
    LET active == ActiveOf(requests)
        cancelled == {requests[i] : i \in 1..Len(requests)} \ {active[i] : i \in 1..Len(active)}
    IN
    /\ pending' = <<>>
    /\ resultCh' = [c \in Callers |-> IF c \in cancelled THEN "ctx_err" ELSE resultCh[c]]
    /\ sends' = [c \in Callers |-> IF c \in cancelled THEN sends[c] + 1 ELSE sends[c]]
    /\ IF active = <<>>
       THEN /\ rpc' = IF isFinal THEN "exited" ELSE "select"
            /\ UNCHANGED <<inflight, final, baseCalls>>
       ELSE /\ rpc' = "flushing"
            /\ inflight' = SortStable(active)
            /\ final' = isFinal
            /\ baseCalls' = baseCalls + 1

\* variant: a send on b.in that is always ready (an inbox without bound)
InboxAlwaysHasRoom == TRUE

\* the select of Enqueue can send on b.in
InboxHasRoom == Len(inbox) < QueueCapacity

\* Enqueue, first select: ctx.Done, b.done, default
EnqCheck(c) ==
    /\ epc[c] = "idle"
    /\ \E choice \in {"ctx_err", "closed", "default"} :
          /\ choice = "ctx_err" => cctx[c]
          /\ choice = "closed" => rpc = "exited"
          /\ choice = "default" => ~cctx[c] /\ rpc # "exited"
          /\ IF choice = "default"
             THEN /\ epc' = [epc EXCEPT ![c] = "submit"]
                  /\ ret' = ret
             ELSE /\ epc' = [epc EXCEPT ![c] = "returned"]
                  /\ ret' = [ret EXCEPT ![c] = choice]
    /\ UNCHANGED <<cctx, inbox, resultCh, rpc, pending, timerRunning, inflight, final, stopped,
                   parentDone, baseLog, baseCalls, sends, timerFires, arrivals, bpFrame>>

\* Enqueue, second select: ctx.Done, b.done, b.in <- request, default
EnqSubmit(c) ==
    /\ epc[c] = "submit"
    /\ \E choice \in {"ctx_err", "closed", "send", "backpressure"} :
          /\ choice = "ctx_err" => cctx[c]
          /\ choice = "closed" => rpc = "exited"
          /\ choice = "send" => InboxHasRoom
          /\ choice = "backpressure" => ~cctx[c] /\ rpc # "exited" /\ ~InboxHasRoom
          /\ IF choice = "send"
             THEN /\ inbox' = Append(inbox, c)
                  /\ epc' = [epc EXCEPT ![c] = "waiting"]
                  /\ ret' = ret
             ELSE /\ inbox' = inbox
                  /\ epc' = [epc EXCEPT ![c] = "returned"]
                  /\ ret' = [ret EXCEPT ![c] = choice]
    /\ UNCHANGED <<cctx, resultCh, rpc, pending, timerRunning, inflight, final, stopped,
                   parentDone, baseLog, baseCalls, sends, timerFires, arrivals, bpFrame>>

\* Enqueue, third select: err := <-request.result, ctx.Done
EnqWait(c) ==
    /\ epc[c] = "waiting"
    /\ \E choice \in {"result", "ctx_err"} :
          /\ choice = "result" => resultCh[c] # "none"
          /\ choice = "ctx_err" => cctx[c]
          /\ IF choice = "result"
             THEN /\ ret' = [ret EXCEPT ![c] = resultCh[c]]
                  /\ resultCh' = [resultCh EXCEPT ![c] = "none"]
             ELSE /\ ret' = [ret EXCEPT ![c] = "ctx_err"]
                  /\ resultCh' = resultCh
    /\ epc' = [epc EXCEPT ![c] = "returned"]
    /\ UNCHANGED <<cctx, inbox, rpc, pending, timerRunning, inflight, final, stopped,
                   parentDone, baseLog, baseCalls, sends, timerFires, arrivals, bpFrame>>

\* the context of caller c is cancelled (the HTTP request ends)
CancelCaller(c) ==
    /\ ~cctx[c]
    /\ epc[c] # "returned"
    /\ cctx' = [cctx EXCEPT ![c] = TRUE]
    /\ UNCHANGED <<epc, ret, inbox, resultCh, rpc, pending, timerRunning, inflight, final,
                   stopped, parentDone, baseLog, baseCalls, sends, timerFires, arrivals,
                   bpFrame>>

\* Close: close(b.stop)
BpClose ==
    /\ ~stopped
    /\ stopped' = TRUE
    /\ UNCHANGED <<epc, ret, cctx, inbox, resultCh, rpc, pending, timerRunning, inflight,
                   final, parentDone, baseLog, baseCalls, sends, timerFires, arrivals,
                   bpFrame>>

\* the parent context given to NewBatchingProducer is cancelled
ParentCancel ==
    /\ ~parentDone
    /\ parentDone' = TRUE
    /\ UNCHANGED <<epc, ret, cctx, inbox, resultCh, rpc, pending, timerRunning, inflight,
                   final, stopped, baseLog, baseCalls, sends, timerFires, arrivals, bpFrame>>

\* run: case <-b.parentDone: stopTimer; flush(true); return
RunParentDone ==
    /\ rpc = "select"
    /\ parentDone
    /\ timerRunning' = FALSE
    /\ FlushPending(pending, TRUE)
    /\ UNCHANGED <<epc, ret, cctx, inbox, stopped, parentDone, baseLog, timerFires, arrivals,
                   bpFrame>>

\* run: case <-b.stop: stopTimer; flush(true); return
RunStop ==
    /\ rpc = "select"
    /\ stopped
    /\ timerRunning' = FALSE
    /\ FlushPending(pending, TRUE)
    /\ UNCHANGED <<epc, ret, cctx, inbox, stopped, parentDone, baseLog, timerFires, arrivals,
                   bpFrame>>

\* run: case <-timerCh: timerRunning = false; flush(false)
RunTimer ==
    /\ rpc = "select"
    /\ timerRunning
    /\ timerRunning' = FALSE
    /\ timerFires' = timerFires + 1
    /\ FlushPending(pending, FALSE)
    /\ UNCHANGED <<epc, ret, cctx, inbox, stopped, parentDone, baseLog, arrivals, bpFrame>>

\* run: case request := <-b.in
RunReceive ==
    /\ rpc = "select"
    /\ inbox # <<>>
    /\ inbox' = Tail(inbox)
    /\ LET c == Head(inbox) IN
       IF cctx[c]
       THEN /\ resultCh' = [resultCh EXCEPT ![c] = "ctx_err"]
            /\ sends' = [sends EXCEPT ![c] = @ + 1]
            /\ UNCHANGED <<rpc, pending, timerRunning, inflight, final, baseCalls, arrivals>>
       ELSE /\ arrivals' = arrivals + 1
            /\ IF Len(pending) + 1 >= MaxBatchSize
               THEN /\ timerRunning' = FALSE
                    /\ FlushPending(Append(pending, c), FALSE)
               ELSE /\ pending' = Append(pending, c)
                    /\ timerRunning' = TRUE
                    /\ UNCHANGED <<resultCh, sends, rpc, inflight, final, baseCalls>>
    /\ UNCHANGED <<epc, ret, cctx, stopped, parentDone, baseLog, timerFires, bpFrame>>

\* what EnqueueBatch does with the messages: nil after writing them all, or an
\* error after writing the first k of them (LocalQueue.EnqueueBatch returns at
\* ctx.Done between two sends; a failed pipeline may have applied a prefix)
BaseOutcomes(messages) ==
    {[err |-> FALSE, written |-> messages]} \cup
    {[err |-> TRUE, written |-> SubSeq(messages, 1, k)] : k \in 0..(Len(messages) - 1)}

\* variant: the flush that answers nil whatever EnqueueBatch returned
ResultAlwaysNil(err) == "nil"

\* request.result <- enqueueErr
ResultOf(err) == IF err THEN "base_err" ELSE "nil"

\* flushBatch: EnqueueBatch returns, every active request gets enqueueErr
FlushEnd ==
    /\ rpc = "flushing"
    /\ \E outcome \in BaseOutcomes(inflight) :
          LET active == {inflight[i] : i \in 1..Len(inflight)} IN
          /\ baseLog' = baseLog \o outcome.written
          /\ resultCh' = [c \in Callers |->
                            IF c \in active
                            THEN ResultOf(outcome.err)
                            ELSE resultCh[c]]
          /\ sends' = [c \in Callers |-> IF c \in active THEN sends[c] + 1 ELSE sends[c]]
    /\ rpc' = IF final THEN "exited" ELSE "select"
    /\ inflight' = <<>>
    /\ final' = FALSE
    /\ UNCHANGED <<epc, ret, cctx, inbox, pending, timerRunning, stopped, parentDone,
                   baseCalls, timerFires, arrivals, bpFrame>>

BatchInit == Init /\ backend = "local" /\ repoKind = "memory"

BatchNext ==
    \/ \E c \in Callers : EnqCheck(c)
    \/ \E c \in Callers : EnqSubmit(c)
    \/ \E c \in Callers : EnqWait(c)
    \/ \E c \in Callers : CancelCaller(c)
    \/ BpClose
    \/ ParentCancel
    \/ RunParentDone
    \/ RunStop
    \/ RunTimer
    \/ RunReceive
    \/ FlushEnd

BatchSpec == BatchInit /\ [][BatchNext]_vars

\* the callers whose message the base producer was given and wrote
Written == {baseLog[i] : i \in 1..Len(baseLog)}

TimesWritten(c) == Cardinality({i \in 1..Len(baseLog) : baseLog[i] = c})

\* C11: a request accepted into the inbox is answered once at most, returns
\* nil or the base producer's error when the caller's context stays live, and
\* is never left waiting for a result that no goroutine will send.
C11_AcceptedReturns ==
    /\ \A c \in Callers : sends[c] <= 1
    /\ \A c \in Callers :
          (epc[c] = "returned" /\ ~cctx[c]) =>
             ret[c] \in {"nil", "base_err", "closed", "backpressure"}
    /\ \A c \in Callers :
          (epc[c] = "waiting" /\ ~cctx[c] /\ rpc = "exited") => resultCh[c] # "none"

\* C12: Enqueue always has a step to take at its send (it does not block); at a
\* full inbox it returns without queueing, with ErrQueueBackpressure when its
\* context is live and the producer open; a request answered with
\* backpressure never reaches the base producer; and when EnqueueBatch
\* returns nil every request of the batch gets nil.
C12_Backpressure ==
    /\ [](\A c \in Callers : epc[c] = "submit" => ENABLED EnqSubmit(c))
    /\ [][\A c \in Callers :
             (epc[c] = "submit" /\ Len(inbox) >= QueueCapacity /\ epc'[c] # "submit") =>
                /\ epc'[c] = "returned"
                /\ inbox' = inbox
                /\ (~cctx[c] /\ rpc # "exited") => ret'[c] = "backpressure"]_vars
    /\ [](\A c \in Callers :
             ret[c] = "backpressure" =>
                /\ c \notin Written
                /\ c \notin Range(inbox) \cup Range(pending) \cup Range(inflight)
                /\ sends[c] = 0)
    /\ [][(rpc = "flushing" /\ rpc' # "flushing" /\ baseLog' = baseLog \o inflight) =>
             \A c \in Range(inflight) : resultCh'[c] = "nil"]_vars

\* C12 witness: one caller was refused with backpressure and the two requests
\* accepted before it have returned nil.
C12_Witness ==
    \E c \in Callers :
       /\ ret[c] = "backpressure"
       /\ Cardinality({d \in Callers : ret[d] = "nil"}) = 2

\* C13: two messages with the same coalesce key that were written to the base
\* producer were written in the order of their requested_at.
C13_OrderWithinKey ==
    \A i, j \in 1..Len(baseLog) :
       (coalesceKey(baseLog[i]) = coalesceKey(baseLog[j])
          /\ RequestedAt(baseLog[i]) < RequestedAt(baseLog[j])) => i < j

----------------------------------------------------------------------------
(* API.Summaries / API.createReport with the idempotency store *)

\* the decoded request bodies explored: two that pass the policy screen and
\* one that ValidateManualOnlyPayload or EnforceContentPolicy rejects
Payloads == {"p1", "p2", "blocked"}

\* hashPayload: FNV-64a of the JSON of the request, distinct for the bodies
\* explored
hashPayload(payload) == CASE payload = "p1" -> 1 [] payload = "p2" -> 2 [] OTHER -> 3

\* variant: a policy screen that lets every request through
PolicyNeverRejects(payload) == FALSE

\* ValidateManualOnlyPayload / EnforceContentPolicy return an error
PolicyRejects(payload) == payload = "blocked"

\* what JobsService.enqueue does for the handler: the job is created and its
\* message published; CreateJob fails; the publish fails after CreateJob, the
\* message queued or not
EnqueueOutcomes == {"ok", "create_failed", "publish_failed", "publish_failed_published"}

Respond(r, code, jobID) == aresp' = [aresp EXCEPT ![r] = [code |-> code, job |-> jobID]]

\* decode and validate the request, hashPayload, api.idempotency.Get(key)
ApiGet(r, payload) ==
    /\ apc[r] = "idle"
    /\ apayload' = [apayload EXCEPT ![r] = payload]
    /\ IF idem = NoEntry
       THEN /\ apc' = [apc EXCEPT ![r] = "screen"]
            /\ aresp' = aresp
       ELSE /\ apc' = [apc EXCEPT ![r] = "done"]
            /\ IF idem.hash # hashPayload(payload)
               THEN Respond(r, 409, 0)
               ELSE Respond(r, 202, idem.job)
    /\ UNCHANGED <<idem, apiJobs, apiPublished, apiFrame>>

\* ValidateManualOnlyPayload, EnforceContentPolicy: 422 policy_violation
ApiScreen(r) ==
    /\ apc[r] = "screen"
    /\ IF PolicyRejects(apayload[r])
       THEN /\ apc' = [apc EXCEPT ![r] = "done"]
            /\ Respond(r, 422, 0)
       ELSE /\ apc' = [apc EXCEPT ![r] = "enqueue"]
            /\ aresp' = aresp
    /\ UNCHANGED <<apayload, idem, apiJobs, apiPublished, apiFrame>>

\* api.jobsService.EnqueueSummary: 500 internal_error when it fails
ApiEnqueue(r) ==
    /\ apc[r] = "enqueue"
    /\ \E outcome \in EnqueueOutcomes :
          LET jobID == Cardinality(apiJobs) + 1 IN
          /\ apiJobs' = IF outcome = "create_failed" THEN apiJobs
                        ELSE apiJobs \cup {[id |-> jobID, by |-> r, payload |-> apayload[r],
                                            enqueued |-> (outcome = "ok")]}
          /\ apiPublished' = IF outcome \in {"ok", "publish_failed_published"}
                             THEN apiPublished \cup {jobID} ELSE apiPublished
          /\ IF outcome = "ok"
             THEN /\ apc' = [apc EXCEPT ![r] = "put"]
                  /\ aresp' = aresp
             ELSE /\ apc' = [apc EXCEPT ![r] = "done"]
                  /\ Respond(r, 500, 0)
    /\ UNCHANGED <<apayload, idem, apiFrame>>

\* api.idempotency.Put(key, payloadHash, job.ID), then 202 with job.ID
ApiPut(r) ==
    /\ apc[r] = "put"
    /\ LET job == CHOOSE j \in apiJobs : j.by = r IN
       /\ idem' = [hash |-> hashPayload(apayload[r]), job |-> job.id]
       /\ Respond(r, 202, job.id)
    /\ apc' = [apc EXCEPT ![r] = "done"]
    /\ UNCHANGED <<apayload, apiJobs, apiPublished, apiFrame>>

ApiInit == Init /\ backend = "local" /\ repoKind = "memory"

ApiNext ==
    \/ \E r \in Requests, payload \in Payloads : ApiGet(r, payload)
    \/ \E r \in Requests : ApiScreen(r)
    \/ \E r \in Requests : ApiEnqueue(r)
    \/ \E r \in Requests : ApiPut(r)

ApiSpec == ApiInit /\ [][ApiNext]_vars

\* the jobs EnqueueSummary returned without error
AcceptedJobs == {j \in apiJobs : j.enqueued}

Accepted202 == {r \in Requests : aresp[r].code = 202}

\* C16: for one Idempotency-Key, under any interleaving of requests, at most
\* one job is accepted, every 202 response carries that job's id, and a
\* request whose payload differs from the accepted one created no job
C16_OneJobPerKey ==
    /\ \A j1, j2 \in AcceptedJobs : j1.id = j2.id
    /\ \A r1, r2 \in Accepted202 : aresp[r1].job = aresp[r2].job
    /\ \A r \in Accepted202 : \A j \in AcceptedJobs : aresp[r].job = j.id

\* C17: a request the policy screen rejects is answered 422 and leaves no
\* trace: no job carries its payload, no queue message was published for it
\* and the idempotency store holds no entry for it
C17_RejectedLeavesNoTrace ==
    /\ \A r \in Requests :
          (apayload[r] = "blocked" /\ apc[r] = "done") => aresp[r].code \in {409, 422}
    /\ \A r \in Requests :
          aresp[r].code = 422 => ~ \E j \in apiJobs : j.by = r
    /\ \A j \in apiJobs : j.payload # "blocked"
    /\ apiPublished \subseteq {j.id : j \in apiJobs}
    /\ idem # NoEntry => idem.hash # hashPayload("blocked")

\* a request was rejected with 422 and a clean request with the same key was
\* accepted with a job of its own, recorded in the idempotency store
C17_Witness ==
    \E r1, r2 \in Requests :
        /\ aresp[r1].code = 422
        /\ aresp[r2].code = 202
        /\ \E j \in apiJobs : j.by = r2 /\ j.id = aresp[r2].job /\ j.id \in apiPublished
        /\ idem = [hash |-> hashPayload(apayload[r2]), job |-> aresp[r2].job]

----------------------------------------------------------------------------
(* AIGenerationService with the SemanticCache *)

\* the last instant of the clock explored
MaxClock == 3

\* SemanticCache.ttl, in clock ticks
ttl == 2

promptVersionOf(task) ==
    CASE task = "suggestion" -> "reply_v1"
      [] task = "summary" -> "summary_v1"
      [] OTHER -> "report_v1"

\* fallbackSuggestions
fallbackSuggestions(promptVersion) ==
    [err |-> "nil", model_id |-> "fallback-local", prompt_version |-> promptVersion,
     body |-> "fallback_suggestions"]

\* variant: a degraded output that is not marked as a fallback
fallbackJobUnmarked(task, promptVersion) ==
    [err |-> "nil", model_id |-> "fallback-local", prompt_version |-> promptVersion,
     body |-> [model_id |-> "fallback-local", prompt_version |-> promptVersion,
               quality_score |-> "0.55"],
     cache_hit |-> FALSE, used_fallback |-> FALSE]

\* fallbackJob: the static payload of the task, marked UsedFallback
fallbackJob(task, promptVersion) ==
    [err |-> "nil", model_id |-> "fallback-local", prompt_version |-> promptVersion,
     body |-> [model_id |-> "fallback-local", prompt_version |-> promptVersion,
               quality_score |-> "0.55"],
     cache_hit |-> FALSE, used_fallback |-> TRUE]

Fallback(task) ==
    IF task = "suggestion" THEN fallbackSuggestions(promptVersionOf(task))
    ELSE fallbackJob(task, promptVersionOf(task))

\* the return of a cache hit
CachedOutput(task, cached) ==
    IF task = "suggestion"
    THEN [err |-> "nil", model_id |-> cached.ModelID, prompt_version |-> cached.PromptVersion,
          body |-> cached.Value]
    ELSE [err |-> "nil", model_id |-> cached.ModelID, prompt_version |-> cached.PromptVersion,
          body |-> cached.Value, cache_hit |-> TRUE, used_fallback |-> FALSE]

\* the return after a validated generation
FreshOutput(task, modelID, body) ==
    IF task = "suggestion"
    THEN [err |-> "nil", model_id |-> modelID, prompt_version |-> promptVersionOf(task),
          body |-> body]
    ELSE [err |-> "nil", model_id |-> modelID, prompt_version |-> promptVersionOf(task),
          body |-> body, cache_hit |-> FALSE, used_fallback |-> FALSE]

\* generateText: the client is nil or unavailable; the primary model answers;
\* the primary model fails and the fallback model, when there is one, is tried
generateText ==
    {[err |-> TRUE, stage |-> "unavailable", calls |-> 0, model |-> ""],
     [err |-> FALSE, stage |-> "none", calls |-> 1, model |-> "primary-model"]}
    \cup (IF hasFallbackModel
          THEN {[err |-> TRUE, stage |-> "generate", calls |-> 2, model |-> ""],
                [err |-> FALSE, stage |-> "none", calls |-> 2, model |-> "fallback-model"]}
          ELSE {[err |-> TRUE, stage |-> "generate", calls |-> 1, model |-> ""]})

Finish(g, output, stage) ==
    /\ gpc' = [gpc EXCEPT ![g] = "done"]
    /\ gout' = [gout EXCEPT ![g] = output]
    /\ gfail' = [gfail EXCEPT ![g] = stage]

\* variant: no entry ever counts as expired
NeverExpired(entry) == FALSE

\* time.Now().UTC().After(entry.ExpiresAt)
Expired(entry) == clock > entry.ExpiresAt

\* builder.Build, cache.BuildSignature and the read of cache.Get
GenProbe(g, task, buildOK) ==
    /\ gpc[g] = "idle"
    /\ gtask' = [gtask EXCEPT ![g] = task]
    /\ IF ~buildOK
       THEN /\ Finish(g, Fallback(task), "context")
            /\ gseen' = gseen
       ELSE LET entry == entries[task] IN
            IF entry = NoCacheEntry
            THEN /\ gpc' = [gpc EXCEPT ![g] = "run"]
                 /\ UNCHANGED <<gseen, gout, gfail>>
            ELSE IF Expired(entry)
            THEN /\ gpc' = [gpc EXCEPT ![g] = "expire"]
                 /\ gseen' = [gseen EXCEPT ![g] = entry]
                 /\ UNCHANGED <<gout, gfail>>
            ELSE /\ Finish(g, CachedOutput(task, entry), "none")
                 /\ gseen' = [gseen EXCEPT ![g] = entry]
    /\ UNCHANGED <<gres, hasFallbackModel, maxEntries, entries, clock, genCalls, lastGen, genFrame>>

\* cache.Get found the entry expired: delete(c.entries, signature) under the
\* write lock, taken after the read lock was released
GenExpire(g) ==
    /\ gpc[g] = "expire"
    /\ entries' = [entries EXCEPT ![gtask[g]] = NoCacheEntry]
    /\ gpc' = [gpc EXCEPT ![g] = "run"]
    /\ UNCHANGED <<gtask, gseen, gres, gout, gfail, hasFallbackModel, maxEntries, clock, genCalls,
                   lastGen, genFrame>>

\* variant: a body the validator rejected goes on to the cache
StageBeforeValidation(renderOK, text, parseOK, validOK) ==
    IF ~renderOK THEN "render"
    ELSE IF text.err THEN text.stage
    ELSE IF ~parseOK THEN "parse"
    ELSE "none"

\* the first stage that returns the fallback: renderPrompt, generateText,
\* parseJobPayload, ValidateTaskPayload; "none" when each succeeded
FailingStage(renderOK, text, parseOK, validOK) ==
    IF ~renderOK THEN "render"
    ELSE IF text.err THEN text.stage
    ELSE IF ~parseOK THEN "parse"
    ELSE IF ~validOK THEN "validate"
    ELSE "none"

\* renderPrompt, generateText, parseJobPayload, ValidateTaskPayload
GenRun(g) ==
    /\ gpc[g] = "run"
    /\ \E renderOK \in BOOLEAN, text \in generateText, parseOK \in BOOLEAN, validOK \in BOOLEAN :
          LET task == gtask[g]
              stage == FailingStage(renderOK, text, parseOK, validOK)
              calls == IF renderOK THEN text.calls ELSE 0
          IN /\ genCalls' = [genCalls EXCEPT ![task] = @ + calls]
             /\ IF stage # "none"
                THEN /\ Finish(g, Fallback(task), stage)
                     /\ gres' = gres
                ELSE /\ gpc' = [gpc EXCEPT ![g] = "set"]
                     /\ gres' = [gres EXCEPT ![g] =
                                   [err |-> "nil", model |-> text.model,
                                    body |-> [model_id |-> text.model,
                                              prompt_version |-> promptVersionOf(task),
                                              quality_score |->
                                                  IF validOK THEN "validated"
                                                  ELSE "rejected"]]]
                     /\ UNCHANGED <<gout, gfail>>
    /\ UNCHANGED <<gtask, gseen, hasFallbackModel, maxEntries, entries, clock, lastGen, genFrame>>

\* the signatures stored
CachedSignatures == {sig \in Tasks : entries[sig] # NoCacheEntry}

\* evictOldest: an entry with the least CreatedAt
Oldest == {sig \in CachedSignatures :
              \A other \in CachedSignatures : entries[sig].CreatedAt <= entries[other].CreatedAt}

\* variant: a cache that never finds itself full
NeverAtCapacity == FALSE

\* len(c.entries) >= c.maxEntries
AtCapacity == Cardinality(CachedSignatures) >= maxEntries

\* SemanticCache.Set: evictOldest when at capacity, then c.entries[signature] =
\* entry; the maps it can leave
Set(signature, entry) ==
    IF AtCapacity
    THEN {[[entries EXCEPT ![victim] = NoCacheEntry] EXCEPT ![signature] = entry] :
             victim \in Oldest}
    ELSE {[entries EXCEPT ![signature] = entry]}

\* the entry Set stores: CreatedAt = now, ExpiresAt = now + ttl
StoredEntry(value, modelID, promptVersion) ==
    [Value |-> value, ModelID |-> modelID, PromptVersion |-> promptVersion,
     CreatedAt |-> clock, ExpiresAt |-> clock + ttl]

\* cache.Set, then the return of the validated output
GenSet(g) ==
    /\ gpc[g] = "set"
    /\ LET task == gtask[g]
           entry == StoredEntry(gres[g].body, gres[g].model, promptVersionOf(task))
       IN /\ entries' \in Set(task, entry)
          /\ lastGen' = [lastGen EXCEPT ![task] = [at |-> clock, output |-> CachedOutput(task, entry)]]
          /\ Finish(g, FreshOutput(task, gres[g].model, gres[g].body), "none")
    /\ UNCHANGED <<gtask, gseen, gres, hasFallbackModel, maxEntries, clock, genCalls, genFrame>>

\* time passes
Tick ==
    /\ clock < MaxClock
    /\ clock' = clock + 1
    /\ UNCHANGED <<gpc, gtask, gseen, gres, gout, gfail, hasFallbackModel, maxEntries, entries, genCalls,
                   lastGen, genFrame>>

GenInit ==
    /\ PipelineInit /\ backend = "local" /\ repoKind = "memory"
    /\ RepoIdle /\ BpIdle /\ ApiIdle /\ CtxIdle /\ ValIdle /\ OrIdle /\ MaskIdle /\ BaseIdle /\ TextIdle
    /\ GenStart
    /\ hasFallbackModel \in BOOLEAN
    /\ maxEntries = 1

GenNext ==
    \/ \E g \in GenRequests, task \in Tasks, buildOK \in BOOLEAN : GenProbe(g, task, buildOK)
    \/ \E g \in GenRequests : GenExpire(g)
    \/ \E g \in GenRequests : GenRun(g)
    \/ \E g \in GenRequests : GenSet(g)
    \/ Tick

GenSpec == GenInit /\ [][GenNext]_vars

StructuredTasks == {"summary", "report"}

\* C18: GenerateSummary and GenerateReport never return an error, and when a
\* stage failed (context build, prompt render, generator absent or failing
\* on every model, output parse, quality validation) they return the static
\* fallback: used_fallback, model_id "fallback-local", quality_score 0.55
C18_FallbackNeverError ==
    \A g \in GenRequests :
        (gpc[g] = "done" /\ gtask[g] \in StructuredTasks) =>
            /\ gout[g].err = "nil"
            /\ gfail[g] # "none" =>
                  /\ gout[g].used_fallback
                  /\ gout[g].model_id = "fallback-local"
                  /\ gout[g].body.model_id = "fallback-local"
                  /\ gout[g].body.quality_score = "0.55"
            /\ gfail[g] = "none" => ~gout[g].used_fallback

\* a summary or report fell back after both models failed, another after the
\* validator rejected the model's output, a third when the client was absent
C18_Witness ==
    \E g1, g2, g3 \in GenRequests :
        /\ gtask[g1] \in StructuredTasks /\ gtask[g2] \in StructuredTasks
        /\ gtask[g3] \in StructuredTasks
        /\ hasFallbackModel
        /\ gfail[g1] = "generate" /\ gout[g1].used_fallback
        /\ gfail[g2] = "validate" /\ gout[g2].used_fallback
        /\ gfail[g3] = "unavailable" /\ gout[g3].used_fallback

\* C19: once a validated generation was stored for a signature, every
\* identical request arriving before the TTL elapses is served from the
\* cache with that generation's model_id, prompt_version and payload, and
\* does not reach the generator
C19_ServedFromCache ==
    [][\A g \in GenRequests :
          (/\ gpc[g] = "idle" /\ gpc'[g] # "idle"
           /\ gfail'[g] # "context"
           /\ lastGen[gtask'[g]].at >= 0
           /\ clock < lastGen[gtask'[g]].at + ttl)
          => (gpc'[g] = "done" /\ gout'[g] = lastGen[gtask'[g]].output)]_vars

\* the requests that returned a fallback output
EndedInFallback == {g \in GenRequests : gpc[g] = "done" /\ gfail[g] # "none"}

\* C34: the semantic cache is written only with a body that passed the
\* quality validator: every stored entry holds a validated body of a real
\* model, an entry is put only by the Set of a request that returns its
\* validated generation, the step that returns a fallback leaves the cache as
\* it is, and a cache hit never serves a fallback payload; the one change a
\* request that ends in a fallback can make is the removal, by its Get, of the
\* entry it read as expired
C34_OnlyValidatedStored ==
    /\ [](/\ \A sig \in CachedSignatures :
               /\ entries[sig].Value.quality_score = "validated"
               /\ entries[sig].ModelID # "fallback-local"
          /\ \A g \in GenRequests :
               (/\ gpc[g] = "done" /\ gfail[g] = "none" /\ gseen[g] # NoCacheEntry
                /\ gout[g] = CachedOutput(gtask[g], gseen[g]))
               => /\ gout[g].body.quality_score = "validated"
                  /\ gout[g].model_id # "fallback-local")
    /\ [][/\ \A sig \in Tasks :
               (entries'[sig] # entries[sig] /\ entries'[sig] # NoCacheEntry)
               => \E g \in GenRequests :
                     /\ gpc[g] = "set" /\ gpc'[g] = "done" /\ gfail'[g] = "none"
                     /\ gtask[g] = sig
                     /\ entries'[sig].Value = gres[g].body
                     /\ gres[g].body.quality_score = "validated"
          /\ \A g \in GenRequests :
               (g \notin EndedInFallback /\ gpc'[g] = "done" /\ gfail'[g] # "none")
               => entries' = entries]_vars

\* the validator rejected a generation: the request returned the fallback,
\* nothing is stored for its signature and the next request for it misses
C34_Witness ==
    \E g \in EndedInFallback, later \in GenRequests :
        /\ gfail[g] = "validate"
        /\ entries[gtask[g]] = NoCacheEntry
        /\ gtask[later] = gtask[g] /\ gpc[later] = "run" /\ gseen[later] = NoCacheEntry

\* C34 as stated: a request that ended in a fallback has left the cache
\* unchanged, so it is not one whose Get saw an expired entry and ran
\* delete(c.entries, signature)
C34_FallbackLeavesCache ==
    \A g \in EndedInFallback : gseen[g] = NoCacheEntry

----------------------------------------------------------------------------
(* SemanticCache, called directly *)

\* the largest Config.MaxEntries explored
MaxEntries == 2

\* cache.Get(signature) by caller g: a miss ("run"), a hit ("done"), or an
\* expired entry to delete under the write lock ("expire")
CacheGet(g, signature) ==
    /\ gpc[g] = "idle"
    /\ gtask' = [gtask EXCEPT ![g] = signature]
    /\ LET entry == entries[signature] IN
       IF entry = NoCacheEntry
       THEN /\ gpc' = [gpc EXCEPT ![g] = "run"]
            /\ gseen' = [gseen EXCEPT ![g] = NoCacheEntry]
            /\ gout' = [gout EXCEPT ![g] = [hit |-> FALSE]]
       ELSE IF Expired(entry)
       THEN /\ gpc' = [gpc EXCEPT ![g] = "expire"]
            /\ gseen' = [gseen EXCEPT ![g] = entry]
            /\ gout' = [gout EXCEPT ![g] = [hit |-> FALSE]]
       ELSE /\ gpc' = [gpc EXCEPT ![g] = "done"]
            /\ gseen' = [gseen EXCEPT ![g] = entry]
            /\ gout' = [gout EXCEPT ![g] = [hit |-> TRUE]]
    /\ UNCHANGED <<gres, gfail, hasFallbackModel, entries, maxEntries, clock, genCalls,
                   lastGen, genFrame>>

\* cache.Set(signature, entry)
CacheSet(signature) ==
    /\ entries' \in Set(signature, StoredEntry("value", "model", "version"))
    /\ UNCHANGED <<gpc, gtask, gseen, gres, gout, gfail, hasFallbackModel, maxEntries, clock,
                   genCalls, lastGen, genFrame>>

\* NewSemanticCache(config)
CacheInit ==
    /\ PipelineInit /\ backend = "local" /\ repoKind = "memory"
    /\ RepoIdle /\ BpIdle /\ ApiIdle /\ CtxIdle /\ ValIdle /\ OrIdle /\ MaskIdle /\ BaseIdle /\ TextIdle
    /\ GenStart
    /\ hasFallbackModel = FALSE
    /\ maxEntries \in 1..MaxEntries

CacheNext ==
    \/ \E g \in GenRequests, signature \in Tasks : CacheGet(g, signature)
    \/ \E g \in GenRequests : GenExpire(g)
    \/ \E signature \in Tasks : CacheSet(signature)
    \/ Tick

CacheSpec == CacheInit /\ [][CacheNext]_vars

\* C22: after any sequence of Set and Get calls the cache holds at most
\* max_entries entries
C22_AtMostMaxEntries == Cardinality(CachedSignatures) <= maxEntries

\* a cache of two entries is full at instant 0, when nothing has expired, and
\* a third signature that a Get was served is stored no more: it was evicted
C22_Witness ==
    /\ maxEntries = MaxEntries
    /\ clock = 0
    /\ Cardinality(CachedSignatures) = maxEntries
    /\ \E g \in GenRequests : gout[g] = [hit |-> TRUE] /\ entries[gtask[g]] = NoCacheEntry

\* the entries a step removed
Removed == {signature \in CachedSignatures : entries'[signature] = NoCacheEntry}

\* C23: Set removes an entry only when the cache would overflow (it is full
\* and the signature written is not stored yet), then exactly one entry, one
\* of least created_at, and the entry just written is present afterwards
C23_EvictOnlyOnOverflow ==
    [][(entries' # entries /\ gpc' = gpc) =>
          /\ Removed # {} =>
                /\ Cardinality(CachedSignatures) >= maxEntries
                /\ \E signature \in Tasks :
                      entries[signature] = NoCacheEntry /\ entries'[signature] # NoCacheEntry
          /\ Cardinality(Removed) <= 1
          /\ Removed \subseteq Oldest
          /\ \E signature \in Tasks :
                entries'[signature] # NoCacheEntry /\ entries'[signature].CreatedAt = clock]_vars

\* C24: every stored entry has expires_at = created_at + ttl; Get returns no
\* entry whose expires_at is earlier than now; a Get on an expired entry
\* reports a miss and removes the entry
C24_ExpiryRespected ==
    [][/\ \A signature \in Tasks :
             entries'[signature] # NoCacheEntry =>
                entries'[signature].ExpiresAt = entries'[signature].CreatedAt + ttl
       /\ \A g \in GenRequests :
             /\ (gout'[g] # gout[g] /\ gout'[g].hit) => gseen'[g].ExpiresAt >= clock
             /\ (gout'[g] # gout[g] /\ entries[gtask'[g]] # NoCacheEntry
                   /\ entries[gtask'[g]].ExpiresAt < clock) => ~gout'[g].hit
             /\ (gpc[g] = "expire" /\ gpc'[g] # "expire") =>
                   /\ entries'[gtask[g]] = NoCacheEntry
                   /\ ~gout'[g].hit]_vars

\* one Get found its entry expired and removed it, and another Get was served
\* an entry of another signature that has not expired
C24_Witness ==
    \E g1, g2 \in GenRequests :
        /\ gpc[g1] = "run" /\ gseen[g1] # NoCacheEntry /\ ~gout[g1].hit
        /\ entries[gtask[g1]] = NoCacheEntry
        /\ gpc[g2] = "done" /\ gout[g2].hit /\ gtask[g2] # gtask[g1] /\ Expired(gseen[g1])
        /\ ~Expired(gseen[g2])

----------------------------------------------------------------------------
(* contextbuilder: BasicRetriever.Retrieve and Builder.Build *)

\* the most message strings in a payload
MaxMessages == 2

\* the largest MaxInputTokens passed to Build
MaxBudget == 6

\* the largest MaxChunks passed to Build
MaxChunkLimit == 2

\* Builder.cacheTTL, in clock ticks
cacheTTL == 2

\* The strings explored, by number:
\*   1 "bom dia"                    2 "bom<U+00A0>dia"
\*   3 "Pode confirmar o prazo?"    4 "wa:title:cliente", the conversation_id
\*   5 the retriever's text for a payload without strings
\*   6 the builder's fallback text
MessageTexts == {1, 2, 3}

MetadataText == 4

\* fragmentFingerprint: lower case, \s+ collapsed; U+00A0 is not in \s
fragmentFingerprint(text) == text

\* the key of dedupeChunks: strings.Fields splits at U+00A0 too
chunkKey(text) == IF text = 2 THEN 1 ELSE text

\* estimateTokens: the runes of the trimmed text divided by 4, at least 1
estimateTokens(text) ==
    CASE text \in {1, 2} -> 1
      [] text = 3 -> 5
      [] text = 4 -> 4
      [] text = 5 -> 22
      [] OTHER -> 19

\* computeScore for task suggestion: 100 - 3 * index, +8 for "prazo", +6 for
\* "?", +4 for the task
computeScore(index, text) == 100 - 3 * index + (IF text = 3 THEN 14 ELSE 0) + 4

\* the elements of seq at the positions Keep accepts, in order
Pick(seq, Keep(_)) ==
    LET F[i \in 0..Len(seq)] ==
            IF i = 0 THEN <<>>
            ELSE IF Keep(i) THEN Append(F[i - 1], seq[i]) ELSE F[i - 1]
    IN F[Len(seq)]

\* the orders in which range visits the keys of the decoded payload object
MapOrders == {"conversation_first", "messages_first"}

\* extractFragments: every string of the payload, under whatever key, in the
\* order the map is ranged over; the payloads explored stay under the limit
extractFragments(payload, order) ==
    LET conversation == IF payload.conversation THEN <<MetadataText>> ELSE <<>>
    IN IF order = "conversation_first"
       THEN conversation \o payload.messages
       ELSE payload.messages \o conversation

\* dedupeFragments: the first fragment of each fingerprint
dedupeFragments(fragments) ==
    Pick(fragments, LAMBDA i : \A j \in 1..(i - 1) :
                        fragmentFingerprint(fragments[j]) # fragmentFingerprint(fragments[i]))

\* BasicRetriever.Retrieve
Retrieve(payload, order) ==
    LET found == extractFragments(payload, order)
        unique == dedupeFragments(IF found = <<>> THEN <<5>> ELSE found)
    IN [i \in 1..Len(unique) |->
           [ID |-> i, Text |-> unique[i], Score |-> computeScore(i - 1, unique[i])]]

\* variant: no deduplication of chunks
dedupeChunksSkipped(chunks) == chunks

\* dedupeChunks: one chunk per key, at the place of the key's first chunk, the
\* first of those with the highest score
dedupeChunks(chunks) ==
    LET same(i) == {k \in 1..Len(chunks) : chunkKey(chunks[k].Text) = chunkKey(chunks[i].Text)}
        best(i) == CHOOSE k \in same(i) : \A m \in same(i) :
                       \/ chunks[k].Score > chunks[m].Score
                       \/ chunks[k].Score = chunks[m].Score /\ k <= m
    IN Pick([i \in 1..Len(chunks) |-> chunks[best(i)]],
            LAMBDA i : \A j \in 1..(i - 1) : j \notin same(i))

\* sort.SliceStable: higher score first, then lower ID
SortChunks(chunks) ==
    LET before(a, b) == a.Score > b.Score \/ (a.Score = b.Score /\ a.ID < b.ID)
        rank(i) == 1 + Cardinality({j \in 1..Len(chunks) : before(chunks[j], chunks[i])})
    IN [p \in 1..Len(chunks) |-> chunks[CHOOSE i \in 1..Len(chunks) : rank(i) = p]]

\* normalizeBuildInput for task suggestion
normalizeBuildInput(input) ==
    [input EXCEPT !.MaxInputTokens = IF @ <= 0 THEN 1600 ELSE @,
                  !.MaxChunks = IF @ <= 0 THEN 6 ELSE @]

\* Build, lines 99-103: the fallback chunk when nothing was selected
WithFallback(picked, input) ==
    IF Len(picked.sel) = 0
    THEN [Chunks |-> <<[ID |-> 0, Text |-> 6, Score |-> 1]>>, TokenCount |-> estimateTokens(6)]
    ELSE [Chunks |-> picked.sel, TokenCount |-> picked.tot]

\* Builder.Build past the cache: retrieve, dedupe, sort, select within the
\* token budget and the chunk limit, fall back, render
Compose(rawInput, order) ==
    LET input == normalizeBuildInput(rawInput)
        retrieved == Retrieve(input.Payload, order)
        chunks == SortChunks(dedupeChunks(retrieved))
        S[i \in 0..Len(chunks)] ==
            IF i = 0 THEN [sel |-> <<>>, tot |-> 0]
            ELSE LET prev == S[i - 1]
                     estimatedTokens == estimateTokens(chunks[i].Text)
                 IN IF \/ Len(prev.sel) >= input.MaxChunks
                       \/ estimatedTokens <= 0
                       \/ prev.tot + estimatedTokens > input.MaxInputTokens
                    THEN prev
                    ELSE [sel |-> Append(prev.sel, chunks[i]), tot |-> prev.tot + estimatedTokens]
        out == WithFallback(S[Len(chunks)], input)
    IN [called |-> TRUE, retrieved |-> retrieved, Chunks |-> out.Chunks,
        ContextText |-> [i \in 1..Len(out.Chunks) |-> out.Chunks[i].Text],
        TokenCount |-> out.TokenCount]

\* Builder.Build: the cached output while its entry has not expired, else a
\* composition that is cached for cacheTTL
Build(order) ==
    /\ order = "messages_first" \/ binput.Payload.conversation
    /\ IF bcache # NoBuild /\ ~(clock > bcache.expiresAt)
       THEN /\ blast' = [bcache.output EXCEPT !.retrieved = <<>>]
            /\ bcache' = bcache
       ELSE LET output == Compose(binput, order) IN
            /\ blast' = output
            /\ bcache' = [called |-> TRUE, output |-> output, expiresAt |-> clock + cacheTTL]
    /\ bfirst' = IF bfirst = NoBuild THEN blast' ELSE bfirst
    /\ UNCHANGED <<binput, clock, ctxFrame>>

\* time passes for the builder
CtxTick ==
    /\ clock < MaxClock
    /\ clock' = clock + 1
    /\ UNCHANGED <<ctxVars, ctxFrame>>

BuildInputs ==
    [Payload : [conversation : BOOLEAN,
                messages : UNION {[1..n -> MessageTexts] : n \in 0..MaxMessages}],
     MaxInputTokens : 0..MaxBudget,
     MaxChunks : 0..MaxChunkLimit]

CtxInit ==
    /\ PipelineInit /\ backend = "local" /\ repoKind = "memory"
    /\ RepoIdle /\ BpIdle /\ ApiIdle /\ GenIdle /\ ValIdle /\ OrIdle /\ MaskIdle /\ BaseIdle /\ TextIdle
    /\ CtxStart
    /\ binput \in BuildInputs

CtxNext ==
    \/ \E order \in MapOrders : Build(order)
    \/ CtxTick

CtxSpec == CtxInit /\ [][CtxNext]_vars

\* C25: the chunks Build returns are pairwise distinct under the dedup key
\* and at most max_chunks (6 by default for task suggestion) in number
C25_ChunksDistinctAndCapped ==
    blast.called =>
        /\ \A i, j \in 1..Len(blast.Chunks) :
              i # j => chunkKey(blast.Chunks[i].Text) # chunkKey(blast.Chunks[j].Text)
        /\ Len(blast.Chunks) <= normalizeBuildInput(binput).MaxChunks

\* the payload holds two messages equal under the dedup key but not under the
\* fragment fingerprint, a recomputed Build returned one chunk for them, and
\* the chunk limit was reached
C25_Witness ==
    /\ blast.called
    /\ Len(blast.retrieved) = 3
    /\ \E i, j \in 1..Len(blast.retrieved) :
          i # j /\ chunkKey(blast.retrieved[i].Text) = chunkKey(blast.retrieved[j].Text)
    /\ Len(blast.Chunks) = binput.MaxChunks
    /\ binput.MaxChunks = MaxChunkLimit

\* C26: the token_count Build returns is at most max_input_tokens, also when
\* no retrieved chunk fits the budget
C26_TokensWithinBudget ==
    blast.called => blast.TokenCount <= normalizeBuildInput(binput).MaxInputTokens

\* C27: Build is deterministic: every call returns the context_text and the
\* token_count of the first call, cached or recomputed after expiry
C27_BuildDeterministic ==
    blast.called =>
        /\ blast.ContextText = bfirst.ContextText
        /\ blast.TokenCount = bfirst.TokenCount

\* C28: no chunk Retrieve returns holds conversation metadata
C28_NoMetadataChunk ==
    blast.called => \A i \in 1..Len(blast.retrieved) : blast.retrieved[i].Text # MetadataText

----------------------------------------------------------------------------
(* quality.OutputValidator.ValidateSuggestions *)

\* the longest content kept (320 in the code), scaled down
MaxContentLen == 4

\* the most candidates in input.Suggestions
MaxCandidates == 4

\* the candidate contents explored, as strings over the letter a, the space
\* and the full stop; none holds personal data, so MaskPIIString leaves them
InputContents ==
    {<<>>, <<" ", " ">>, <<"a">>, <<" ", "a", " ", " ", "a", " ">>, <<"a", "a", "a", ".">>,
     <<"a", "a", "a", "a", "a">>, <<"a", "a", "a", "a", ".">>,
     <<"a", " ", "a", "a", "a", "a">>, <<"a", "a", "a", " ", "a", "a">>}

\* strings.TrimSpace
TrimSpace(value) ==
    LET solid == {i \in 1..Len(value) : value[i] # " "}
    IN IF solid = {} THEN <<>>
       ELSE SubSeq(value, CHOOSE i \in solid : \A j \in solid : i <= j,
                          CHOOSE i \in solid : \A j \in solid : i >= j)

\* normalizeText: trimmed, runs of white space collapsed to one space
normalizeText(value) ==
    LET trimmed == TrimSpace(value)
    IN Pick(trimmed, LAMBDA i : trimmed[i] # " " \/ trimmed[i - 1] # " ")

\* truncateAtWord: the first maxLen bytes, cut back to the last space when it
\* lies past the middle (strings.LastIndex counts from 0)
truncateAtWord(value, maxLen) ==
    IF Len(value) <= maxLen \/ maxLen <= 0 THEN value
    ELSE LET cut == SubSeq(value, 1, maxLen)
             spaces == {i \in 1..maxLen : cut[i] = " "}
             lastSpace == IF spaces = {} THEN -1
                          ELSE (CHOOSE i \in spaces : \A j \in spaces : i >= j) - 1
         IN TrimSpace(IF lastSpace > maxLen \div 2 THEN SubSeq(cut, 1, lastSpace) ELSE cut)

hasTerminalPunctuation(value) ==
    Len(value) > 0 /\ value[Len(value)] \in {".", "!", "?"}

\* ValidateSuggestions, lines 77-85: truncate past the limit, then add a full
\* stop when the content has no terminal punctuation
FinishContent(content) ==
    LET cut == IF Len(content) > MaxContentLen THEN truncateAtWord(content, MaxContentLen)
               ELSE content
    IN IF hasTerminalPunctuation(cut) THEN cut ELSE Append(cut, ".")

\* one iteration of the loop over input.Suggestions
ValidateItem(candidate, toneMismatch, localeMismatch) ==
    /\ vres = NoResult
    /\ vcount < MaxCandidates
    /\ Len(vout) < 3
    /\ vcount' = vcount + 1
    /\ LET content == normalizeText(candidate) IN
       IF content = <<>>
       THEN /\ ~toneMismatch /\ ~localeMismatch
            /\ vpenalty' = vpenalty + 20
            /\ vout' = vout
       ELSE LET finished == FinishContent(content)
                cutPenalty == IF Len(content) > MaxContentLen THEN 8 ELSE 0
            IN IF \E i \in 1..Len(vout) : vout[i].Content = finished
               THEN /\ ~toneMismatch /\ ~localeMismatch
                    /\ vpenalty' = vpenalty + cutPenalty + 6
                    /\ vout' = vout
               ELSE /\ vpenalty' = vpenalty + cutPenalty + (IF toneMismatch THEN 7 ELSE 0)
                                     + (IF localeMismatch THEN 7 ELSE 0)
                    /\ vout' = Append(vout, [Rank |-> Len(vout) + 1, Content |-> finished])
    /\ UNCHANGED <<vres, valFrame>>

\* the end of input.Suggestions or the break at three: the rejections, else
\* the suggestions kept
ValidateReturn ==
    /\ vres = NoResult
    /\ vres' = IF vcount = 0 \/ Len(vout) = 0 \/ 100 - vpenalty < 45
               THEN [returned |-> TRUE, err |-> TRUE, Suggestions |-> <<>>]
               ELSE [returned |-> TRUE, err |-> FALSE, Suggestions |-> vout]
    /\ UNCHANGED <<vout, vpenalty, vcount, valFrame>>

ValInit ==
    /\ PipelineInit /\ backend = "local" /\ repoKind = "memory"
    /\ RepoIdle /\ BpIdle /\ ApiIdle /\ GenIdle /\ CtxIdle /\ OrIdle /\ MaskIdle /\ BaseIdle /\ TextIdle
    /\ ValIdle

ValNext ==
    \/ \E candidate \in InputContents, toneMismatch \in BOOLEAN, localeMismatch \in BOOLEAN :
          ValidateItem(candidate, toneMismatch, localeMismatch)
    \/ ValidateReturn

ValSpec == ValInit /\ [][ValNext]_vars

\* C29: every suggestion ValidateSuggestions returns ends with '.', '!' or
\* '?' and is at most 320 long (here MaxContentLen); at most 3 are returned,
\* ranked 1..N
C29_SuggestionsWellFormed ==
    (vres.returned /\ ~vres.err) =>
        /\ Len(vres.Suggestions) <= 3
        /\ \A i \in 1..Len(vres.Suggestions) :
              /\ vres.Suggestions[i].Rank = i
              /\ hasTerminalPunctuation(vres.Suggestions[i].Content)
              /\ Len(vres.Suggestions[i].Content) <= MaxContentLen

----------------------------------------------------------------------------
(* ai.OpenRouterClient.Generate *)

\* the largest configured MaxRetries explored
MaxConfiguredRetries == 2

\* the HTTP statuses a non-2xx response carries here
ErrorStatuses == {400, 408, 429, 500, 503}

\* what callChatCompletionsAPI returns: a result, a providerHTTPError with its
\* status, or another error; transientText says whether the error's message
\* holds "timeout" or "tempor"
Success == [kind |-> "ok"]

CallOutcomes ==
    {Success}
    \cup [kind : {"http"}, status : ErrorStatuses, transientText : BOOLEAN]
    \cup [kind : {"other"}, transientText : BOOLEAN]

\* with the context done the request fails: "openrouter timeout" after a
\* deadline, "openrouter transport error: ... context canceled" otherwise
ContextOutcomes == [kind : {"other"}, transientText : BOOLEAN]

\* variant: every error is retried
AlwaysRetryable(err) == err # Success

isRetryableProviderError(err) ==
    /\ err # Success
    /\ IF err.kind = "http" THEN err.status = 429 \/ err.status >= 500
       ELSE err.transientText

\* NewOpenRouterClient: the maxRetries of a client configured with MaxRetries
NewOpenRouterClient(configured) ==
    IF configured <= 0 THEN DefaultMaxRetries ELSE configured

Returned(kind, value) == [returned |-> TRUE, kind |-> kind, value |-> value]

\* Generate up to the loop: no API key, no model or no input is an error
\* without a call
OrGenerate(valid) ==
    /\ opc = "idle"
    /\ IF valid THEN opc' = "call" /\ oret' = oret
       ELSE opc' = "returned" /\ oret' = Returned("invalid", Success)
    /\ UNCHANGED <<attempt, olog, octx, maxRetries, orFrame>>

\* one callChatCompletionsAPI and what the loop body does with its outcome
OrCall(outcome) ==
    /\ opc = "call"
    /\ octx => outcome \in ContextOutcomes
    /\ olog' = Append(olog, outcome)
    /\ IF outcome = Success
       THEN opc' = "returned" /\ oret' = Returned("result", outcome)
       ELSE IF ~isRetryableProviderError(outcome) \/ attempt = maxRetries
       THEN opc' = "returned" /\ oret' = Returned("lastErr", outcome)
       ELSE opc' = "wait" /\ oret' = oret
    /\ UNCHANGED <<attempt, octx, maxRetries, orFrame>>

\* case <-ctx.Done()
OrWaitDone ==
    /\ opc = "wait"
    /\ octx
    /\ opc' = "returned"
    /\ oret' = Returned("ctxErr", Success)
    /\ UNCHANGED <<attempt, olog, octx, maxRetries, orFrame>>

\* case <-time.After(backoff), then attempt++
OrTimer ==
    /\ opc = "wait"
    /\ ~octx
    /\ attempt' = attempt + 1
    /\ opc' = "call"
    /\ UNCHANGED <<olog, oret, octx, maxRetries, orFrame>>

\* the caller cancels the context, or its deadline passes
OrCancel ==
    /\ opc \in {"call", "wait"}
    /\ ~octx
    /\ octx' = TRUE
    /\ UNCHANGED <<opc, attempt, olog, oret, maxRetries, orFrame>>

OrInit ==
    /\ PipelineInit /\ backend = "local" /\ repoKind = "memory"
    /\ RepoIdle /\ BpIdle /\ ApiIdle /\ GenIdle /\ CtxIdle /\ ValIdle /\ MaskIdle /\ BaseIdle /\ TextIdle
    /\ opc = "idle" /\ attempt = 0 /\ olog = <<>> /\ oret = NoResult /\ octx = FALSE
    /\ \E configured \in 0..MaxConfiguredRetries : maxRetries = NewOpenRouterClient(configured)

OrNext ==
    \/ \E valid \in BOOLEAN : OrGenerate(valid)
    \/ \E outcome \in CallOutcomes : OrCall(outcome)
    \/ OrWaitDone
    \/ OrTimer
    \/ OrCancel

OrSpec == OrInit /\ [][OrNext]_vars

\* a transient error as the retry policy names it: HTTP 429, HTTP 5xx, or a
\* timeout / temporary message
TransientError(err) ==
    /\ err # Success
    /\ \/ err.kind = "http" /\ (err.status = 429 \/ err.status \in 500..599)
       \/ err.transientText

C30_CallsAndReturns ==
    /\ Len(olog) <= maxRetries + 1
    /\ \A i \in 1..(Len(olog) - 1) : TransientError(olog[i])
    /\ \A i \in 1..Len(olog) :
          (olog[i] = Success \/ ~TransientError(olog[i])) =>
              /\ i = Len(olog)
              /\ opc = "returned"
              /\ oret = Returned(IF olog[i] = Success THEN "result" ELSE "lastErr", olog[i])

C30_CancelledWait ==
    (opc = "wait" /\ octx) =>
        /\ opc' = "returned"
        /\ oret' = Returned("ctxErr", Success)
        /\ olog' = olog

\* C30: Generate makes at most maxRetries + 1 provider calls, calls again only
\* after a transient error (HTTP 429, HTTP 5xx, timeout / temporary), returns
\* at the first success or first non-transient error, and returns the
\* context's error when the context is done while it waits to retry
C30_BoundedRetries == []C30_CallsAndReturns /\ [][C30_CancelledWait]_vars

\* all maxRetries + 1 calls made, each after a transient error, the last
\* error returned
C30_Witness ==
    /\ opc = "returned"
    /\ Len(olog) = maxRetries + 1
    /\ oret = Returned("lastErr", olog[Len(olog)])
    /\ isRetryableProviderError(oret.value)

----------------------------------------------------------------------------
(* policy.MaskPIIString, policy.MaskPIIJSON *)

\* the most pieces a payload text is made of
MaxPieces == 3

\* how often a payload is masked on its way: handler, jobs service, worker
MaxPasses == 3

EmailRedacted == "[email_redacted]"
PhoneRedacted == "[phone_redacted]"

\* texts are sequences over a letter, a digit, '@', '.', the space and the two
\* replacement texts, each kept as one element: its brackets are not word
\* characters and keep what is inside from joining a match
EmailPiece == <<"a", "@", "a", ".", "a", "a">>
PhonePiece == <<"1", "1", "1", "1", "1", "1", "1", "1", "1">>
Pieces == {EmailPiece, PhonePiece, <<"a">>, <<"1">>, <<"@">>, <<".">>, <<" ">>}

RECURSIVE Concat(_)
Concat(pieces) ==
    IF pieces = <<>> THEN <<>> ELSE Head(pieces) \o Concat(Tail(pieces))

Texts == {Concat(pieces) : pieces \in UNION {[1..n -> Pieces] : n \in 0..MaxPieces}}

\* \b between positions k and k + 1
IsWordChar(c) == c \in {"a", "1"}
WordAt(text, k) == k \in 1..Len(text) /\ IsWordChar(text[k])
Boundary(text, k) == WordAt(text, k) # WordAt(text, k + 1)

AllIn(text, from, to, chars) == \A k \in from..to : text[k] \in chars

Largest(S) == CHOOSE x \in S : \A y \in S : x >= y

\* emailPattern at position i: the end of the match, 0 when there is none.
\* \b, [a-z0-9._%+\-]+ up to the '@', the longest [a-z0-9.\-]+ such that
\* \.[a-z]{2,}\b follows it
EmailEnd(text, i) ==
    LET ats == {p \in (i + 1)..Len(text) :
                   text[p] = "@" /\ AllIn(text, i, p - 1, {"a", "1", "."})}
        ends(p) == {j \in (p + 4)..Len(text) :
                       /\ Boundary(text, j)
                       /\ \E q \in (p + 2)..(j - 2) :
                             /\ text[q] = "."
                             /\ AllIn(text, p + 1, q - 1, {"a", "1", "."})
                             /\ AllIn(text, q + 1, j, {"a"})}
    IN IF ~Boundary(text, i - 1) \/ ats = {} THEN 0
       ELSE LET p == CHOOSE p \in ats : TRUE
            IN IF ends(p) = {} THEN 0 ELSE Largest(ends(p))

\* phonePattern at position i: \d, the longest [\d()\-\s.]{7,} that a \d follows
PhoneEnd(text, i) ==
    LET ends == {j \in (i + 8)..Len(text) :
                    text[j] = "1" /\ AllIn(text, i + 1, j - 1, {"1", " ", "."})}
    IN IF text[i] # "1" \/ ends = {} THEN 0 ELSE Largest(ends)

\* ReplaceAllStringFunc: the leftmost matches, none overlapping, each replaced
RECURSIVE ReplaceAll(_, _, _, _)
ReplaceAll(text, i, MatchEnd(_, _), replacement) ==
    IF i > Len(text) THEN <<>>
    ELSE IF MatchEnd(text, i) > 0
    THEN <<replacement>> \o ReplaceAll(text, MatchEnd(text, i) + 1, MatchEnd, replacement)
    ELSE <<text[i]>> \o ReplaceAll(text, i + 1, MatchEnd, replacement)

\* MaskPIIString: e-mail addresses, then telephone numbers. The CPF, CNPJ and
\* card patterns match digits, '.', '-', ' ' runs of 11 and more (CNPJ with a
\* '/'), which over these texts the telephone pattern has replaced before
MaskPIIString(value) ==
    ReplaceAll(ReplaceAll(value, 1, EmailEnd, EmailRedacted), 1, PhoneEnd, PhoneRedacted)

\* json.Unmarshal accepts bare text only when it is a number
IsJSONNumber(text) ==
    LET t == TrimSpace(text)
    IN /\ t # <<>>
       /\ AllIn(t, 1, Len(t), {"1", "."})
       /\ t[1] = "1" /\ t[Len(t)] = "1"
       /\ Cardinality({k \in 1..Len(t) : t[k] = "."}) <= 1

\* payload bytes: form "text" is the bare text, form "json" the document
\* {"text": <text>}, compact or with insignificant white space
Payload(form, compact, text) == [form |-> form, compact |-> compact, text |-> text]

MaskInputs ==
    {Payload("text", TRUE, text) : text \in Texts}
    \cup {Payload("json", compact, text) : compact \in BOOLEAN, text \in Texts}

\* MaskPIIJSON on the bytes of a payload: blank bytes are returned as they are, bytes that do not decode
\* are masked as a string, a decoded document has its strings masked and is
\* marshalled again
MaskPIIJSONBytes(payload) ==
    IF payload.form = "text"
    THEN IF TrimSpace(payload.text) = <<>> THEN payload
         ELSE IF IsJSONNumber(payload.text) THEN Payload("text", TRUE, TrimSpace(payload.text))
         ELSE Payload("text", TRUE, MaskPIIString(payload.text))
    ELSE Payload("json", TRUE, MaskPIIString(payload.text))

\* a payload arrives
MaskReceive(payload) ==
    /\ mhist = <<>>
    /\ mhist' = <<payload>>
    /\ UNCHANGED maskFrame

\* the next layer masks what the one before passed on
MaskPass ==
    /\ Len(mhist) \in 1..MaxPasses
    /\ mhist' = Append(mhist, MaskPIIJSONBytes(mhist[Len(mhist)]))
    /\ UNCHANGED maskFrame

MaskInit ==
    /\ PipelineInit /\ backend = "local" /\ repoKind = "memory"
    /\ RepoIdle /\ BpIdle /\ ApiIdle /\ GenIdle /\ CtxIdle /\ ValIdle /\ OrIdle
    /\ MaskIdle /\ BaseIdle /\ TextIdle

MaskNext ==
    \/ \E payload \in MaskInputs : MaskReceive(payload)
    \/ MaskPass

MaskSpec == MaskInit /\ [][MaskNext]_vars

\* C31: MaskPIIJSON(MaskPIIJSON(x)) = MaskPIIJSON(x) for every payload x,
\* valid JSON or not: the second masking returns the bytes of the first
C31_MaskIdempotent ==
    Len(mhist) >= 3 => mhist[3] = mhist[2]

----------------------------------------------------------------------------
(* Properties of the pipeline: stream consumer, worker, jobs service *)

\* C32: when StreamsQueue.Consume ends the handling of a failed message with
\* the acknowledgement and deletion of the old entry, the message (attempt
\* incremented) is in the main stream or in the DLQ, or the old entry is still
\* in the main stream: it is never in neither
C32_RetryCopyBeforeAck ==
    [][(backend = "streams" /\ cpc = "s_ack" /\ cpc' = "next") =>
          \/ cur \in Range(ch')
          \/ cur \in dlq'
          \/ item.job \in unacked']_vars

----------------------------------------------------------------------------
(* The process stops and is started again, StreamsQueue *)

\* a service call that the end of the process cut short
Aborted(calls) ==
    [j \in JobIDs |-> IF calls[j] \in {"created", "failing"} THEN "aborted" ELSE calls[j]]

\* the process is killed: nothing more runs
Crash ==
    /\ backend = "streams"
    /\ cpc \notin {"crashed", "stopped"}
    /\ cpc' = "crashed"
    /\ svc' = Aborted(svc)
    /\ UNCHANGED <<componentVars, backend, repoKind, jobs, queueVars, wjob, ctxDone, histVars>>

\* main starts again: a new MemoryJobsRepository is empty, the Redis streams
\* are as they were; the entries read and not acknowledged stay pending in
\* the group, and XReadGroup with ">" does not return them
Restart ==
    /\ backend = "streams"
    /\ cpc \in {"crashed", "stopped"}
    /\ cpc' = "idle"
    /\ ctxDone' = FALSE
    /\ svc' = Aborted(svc)
    /\ jobs' = IF repoKind = "memory" THEN [j \in JobIDs |-> NoJob] ELSE jobs
    /\ unacked' = unacked \cup {m.job : m \in (Range(batch) \cup {item}) \ {NoMessage}}
    /\ batch' = <<>>
    /\ EndHandler
    /\ UNCHANGED <<componentVars, backend, repoKind, ch, timers, dlq, histVars>>

RestartInit == PipelineInit /\ backend = "streams" /\ ComponentsIdle

RestartNext ==
    \/ \E j \in JobIDs, kind \in JobKinds : SvcCreate(j, kind)
    \/ \E j \in JobIDs : SvcPublish(j)
    \/ \E j \in JobIDs : SvcFailWrite(j)
    \/ HGet
    \/ HMark
    \/ HBuild
    \/ StreamsRead
    \/ StreamsNextItem
    \/ StreamsBatchDone
    \/ StreamsAfterSuccess
    \/ StreamsDLQ
    \/ StreamsRequeue
    \/ StreamsRequeueDLQ
    \/ StreamsAck
    \/ ConsumerStop
    \/ Shutdown
    \/ Crash
    \/ Restart

RestartSpec == RestartInit /\ [][RestartNext]_vars

\* the consumer goroutine runs when it can, and a stopped process is started
\* again
RestartFairSpec ==
    /\ RestartSpec
    /\ WF_vars(ConsumerNext)
    /\ WF_vars(Restart)

\* C35: when the job a message names is not in the repository, processMessage
\* returns an error with no job created or modified, and Consume then applies
\* its retry policy: the attempt is incremented and the message is requeued or,
\* at maxAttempts, sent to the DLQ
C35_MissingJobFails ==
    /\ [][(cpc = "h_get" /\ cpc' \notin {"h_get", "crashed"} /\ jobs[cur.job] = NoJob) =>
             /\ cpc' = "failed"
             /\ jobs' = jobs
             /\ failures'[cur.job] = failures[cur.job] + 1]_vars
    /\ [][(cpc = "failed" /\ cpc' \notin {"failed", "crashed"}) =>
             /\ cur' = NextAttempt(cur)
             /\ jobs' = jobs
             /\ IF cur'.attempt >= maxAttempts
                THEN cpc' = "s_ack" /\ ch' = ch /\ dlq' \in {dlq, dlq \cup {cur'}}
                ELSE \/ cpc' = "s_ack" /\ ch' = Append(ch, cur')
                     \/ cpc' = "s_requeue_failed" /\ ch' = ch]_vars

\* the handler has returned an error for a message whose job is not stored
C35_Witness ==
    /\ cpc = "failed"
    /\ cur.job \in JobIDs
    /\ jobs[cur.job] = NoJob

\* C40: an entry that the consumer had read and not acknowledged when the
\* process stopped is, once the process runs again, passed to a handler again
\* or is in the DLQ
C40_PendingRedelivered ==
    \A j \in JobIDs :
       (cpc = "crashed" /\ item.job = j /\ deliveries[j] = 1) ~>
          (cpc # "crashed" /\ (deliveries[j] > 1 \/ \E m \in dlq : m.job = j))

\* C38: the write JobsService.enqueue makes after a publish error (status
\* failed, attempts 0) leaves a job alone that the worker has already stored as
\* processing or done
C38_FailWriteKeepsWorkerState ==
    [][\A j \in JobIDs :
          (/\ svc[j] = "failing"
           /\ svc'[j] = "returned_err"
           /\ jobs[j].status \in {JobStatusProcessing, JobStatusDone}) =>
             jobs'[j] = jobs[j]]_vars

----------------------------------------------------------------------------
(* Properties of the BatchingProducer: errors and shutdown *)

\* C37: a caller to whom Enqueue returned an error (backpressure, closed, its
\* context's error, or the error of the flush) has no message written to the
\* base producer
C37_ErrorMeansNotWritten ==
    \A c \in Callers :
       (epc[c] = "returned" /\ ret[c] # "nil") => c \notin Written

\* other writers (the retry goroutines of Consume) fill q.ch
BaseFills ==
    /\ ~baseFull
    /\ baseFull' = TRUE
    /\ UNCHANGED baseFrame

\* Consume receives from q.ch; it returns when the parent context, which is
\* its own, is done
BaseDrains ==
    /\ baseFull
    /\ ~parentDone
    /\ baseFull' = FALSE
    /\ UNCHANGED baseFrame

\* flushBatch on a LocalQueue: with q.ch full, EnqueueBatch stays in its
\* select until flushCtx is done, and the flushCtx of a final flush is
\* context.Background()
FlushReturn ==
    /\ baseFull => ~final /\ baseLog' = baseLog
    /\ FlushEnd

CloseInit ==
    /\ PipelineInit /\ backend = "local" /\ repoKind = "memory"
    /\ RepoIdle /\ BpIdle /\ ApiIdle /\ GenIdle /\ CtxIdle /\ ValIdle /\ OrIdle /\ MaskIdle /\ TextIdle
    /\ baseFull \in BOOLEAN

CloseNext ==
    \/ \E c \in Callers : EnqCheck(c)
    \/ \E c \in Callers : EnqSubmit(c)
    \/ \E c \in Callers : EnqWait(c)
    \/ \E c \in Callers : CancelCaller(c)
    \/ BpClose
    \/ ParentCancel
    \/ RunParentDone
    \/ RunStop
    \/ RunTimer
    \/ RunReceive
    \/ FlushReturn
    \/ BaseFills
    \/ BaseDrains

\* one step of the run goroutine
RunNext ==
    \/ RunParentDone
    \/ RunStop
    \/ RunTimer
    \/ RunReceive
    \/ FlushReturn

\* the run goroutine is scheduled when it can take a step
CloseSpec == CloseInit /\ [][CloseNext]_vars /\ WF_vars(RunNext)

\* C36: once Close has been called or the parent context is done, run makes
\* its final flush and exits (b.done is closed, Close returns), whatever the
\* state of the base producer
C36_CloseReturns ==
    (stopped \/ parentDone) ~> (rpc = "exited")

----------------------------------------------------------------------------
(* generateText: the primary model, then the fallback model *)

\* the model ids a configuration can hold: unset, blank, the default, another
ConfiguredModels == {<<>>, <<" ">>, <<"d">>, <<"f">>}

\* NewModelRouter: a blank model id becomes "openai/gpt-4o-mini"
RouterModel(configured) == IF TrimSpace(configured) = <<>> THEN <<"d">> ELSE configured

\* ModelRouter.Select over the configurations NewModelRouter accepts
Profiles ==
    {[PrimaryModel |-> RouterModel(primary), FallbackModel |-> RouterModel(fallback)] :
        primary \in ConfiguredModels, fallback \in ConfiguredModels}

\* the model ids a provider answer carries: none, or its own
ResultModelIDs == {<<>>, <<"r">>}

firstNonEmpty(first, second) ==
    IF TrimSpace(first) # <<>> THEN TrimSpace(first)
    ELSE IF TrimSpace(second) # <<>> THEN TrimSpace(second)
    ELSE <<>>

\* variant: every profile counts as having a fallback model of its own
AnyFallback(p) == TRUE

\* the negation of: strings.TrimSpace(profile.FallbackModel) == "" ||
\* profile.FallbackModel == profile.PrimaryModel
HasDistinctFallback(p) ==
    TrimSpace(p.FallbackModel) # <<>> /\ p.FallbackModel # p.PrimaryModel

TextReturn(g, modelID, err) ==
    /\ tret' = [tret EXCEPT ![g] = <<[model |-> modelID, err |-> err]>>]
    /\ tpc' = [tpc EXCEPT ![g] = "done"]

\* s.client == nil || !s.client.Available()
TextStart(g, available) ==
    /\ tpc[g] = "idle"
    /\ IF available
       THEN /\ tpc' = [tpc EXCEPT ![g] = "primary"]
            /\ tret' = tret
       ELSE TextReturn(g, <<>>, "unavailable")
    /\ UNCHANGED <<profile, tlog, textFrame>>

\* s.client.Generate with profile.PrimaryModel, and what follows its answer
TextPrimary(g, ok, resultID) ==
    /\ tpc[g] = "primary"
    /\ tlog' = [tlog EXCEPT ![g] = Append(@, [model |-> profile.PrimaryModel, ok |-> ok])]
    /\ IF ok
       THEN TextReturn(g, firstNonEmpty(resultID, profile.PrimaryModel), "nil")
       ELSE IF ~HasDistinctFallback(profile)
       THEN TextReturn(g, <<>>, "primary")
       ELSE /\ tpc' = [tpc EXCEPT ![g] = "fallback"]
            /\ tret' = tret
    /\ UNCHANGED <<profile, textFrame>>

\* s.client.Generate with profile.FallbackModel
TextFallback(g, ok, resultID) ==
    /\ tpc[g] = "fallback"
    /\ tlog' = [tlog EXCEPT ![g] = Append(@, [model |-> profile.FallbackModel, ok |-> ok])]
    /\ IF ok
       THEN TextReturn(g, firstNonEmpty(resultID, profile.FallbackModel), "nil")
       ELSE TextReturn(g, <<>>, "primary_and_fallback")
    /\ UNCHANGED <<profile, textFrame>>

TextInit ==
    /\ PipelineInit /\ backend = "local" /\ repoKind = "memory"
    /\ RepoIdle /\ BpIdle /\ ApiIdle /\ GenIdle /\ CtxIdle /\ ValIdle /\ OrIdle
    /\ MaskIdle /\ BaseIdle
    /\ profile \in Profiles
    /\ tpc = [g \in GenRequests |-> "idle"]
    /\ tlog = [g \in GenRequests |-> <<>>]
    /\ tret = [g \in GenRequests |-> <<>>]

TextNext ==
    \/ \E g \in GenRequests, available \in BOOLEAN : TextStart(g, available)
    \/ \E g \in GenRequests, ok \in BOOLEAN, resultID \in ResultModelIDs :
          TextPrimary(g, ok, resultID)
    \/ \E g \in GenRequests, ok \in BOOLEAN, resultID \in ResultModelIDs :
          TextFallback(g, ok, resultID)

TextSpec == TextInit /\ [][TextNext]_vars

\* C33: for one generation request the primary model is called first and
\* once; the fallback model is called at most once, only after the primary
\* call returned an error and only when the fallback model id is non-empty and
\* differs from the primary; when the primary call succeeded, or there is no
\* distinct fallback, no second call is made
C33_PrimaryThenFallback ==
    \A g \in GenRequests :
        LET calls == tlog[g] IN
        /\ Len(calls) <= 2
        /\ tpc[g] \in {"fallback", "done"} /\ tret[g] # <<[model |-> <<>>, err |-> "unavailable"]>>
              => Len(calls) >= 1
        /\ Len(calls) >= 1 => calls[1].model = profile.PrimaryModel
        /\ Len(calls) = 2 =>
              /\ calls[2].model = profile.FallbackModel
              /\ ~calls[1].ok
              /\ profile.FallbackModel # <<>>
              /\ profile.FallbackModel # profile.PrimaryModel
        /\ (/\ tpc[g] = "done" /\ Len(calls) >= 1
            /\ \/ calls[1].ok
               \/ profile.FallbackModel = <<>>
               \/ profile.FallbackModel = profile.PrimaryModel)
              => Len(calls) = 1

\* the primary model failed and the fallback model was called, both once
C33_Witness ==
    \E g \in GenRequests :
        /\ tpc[g] = "done" /\ Len(tlog[g]) = 2
        /\ tlog[g][2].model = <<"f">> /\ tlog[g][1].model = <<"d">>

----------------------------------------------------------------------------
(* Get's removal against a concurrent Set *)

\* C39: under concurrent Get and Set on one key, the removal that Get performs
\* for an expired entry never deletes a fresh, unexpired entry that a
\* concurrent Set stored for the key between Get's read and Get's delete
C39_GetRemovesOnlyExpired ==
    [][\A g \in GenRequests :
          (gpc[g] = "expire" /\ gpc'[g] = "run") =>
              \A signature \in Tasks :
                 (entries[signature] # NoCacheEntry /\ entries'[signature] = NoCacheEntry)
                 => Expired(entries[signature])]_vars

====
